---- MODULE Spec2Model ----
(***************************************************************************)
(* A model of the warren-ai decision engine: the rule-condition evaluator, *)
(* the veto-rule check, the counter-argument generator and the final       *)
(* recommendation of the Devil's Advocate agent, the ratios, the moat      *)
(* score and the integrity checks of the Data Quality agent, and the       *)
(* owner's earnings and margin of safety of the Valuation agent, and the   *)
(* sequence of stages of the orchestrator.                                 *)
(*                                                                         *)
(* Numbers.  Every Python float or int of the program is an integer count  *)
(* of hundredths: 0.12 is 12, -2.2 is -220, a moat score of 75 is 7500.    *)
(* Strings that the program parses (rule conditions) are sequences of      *)
(* one-character strings, so that split() and float() are computed.        *)
(***************************************************************************)
EXTENDS Integers, Sequences, FiniteSets, TLC

VARIABLES
    pc,               \* "call" before the operation under analysis ran, "done" after
    veto_rules,       \* config["veto_rules"], a list of rule mappings
    dqa_output,       \* a DataQualityOutput
    va_output,        \* a ValuationOutput
    condition,        \* the condition argument of _evaluate_condition
    value,            \* the local `value` of _evaluate_condition (lines 149-156)
    veto,             \* the veto argument of _make_recommendation
    counterarguments, \* the counterarguments argument of _make_recommendation
    stress_results,   \* the stress_results argument of _make_recommendation
    financial_data,   \* the financial record given to a calculator or to analyze
    mos_intrinsic_value,  \* the intrinsic_value argument of _calculate_mos
    mos_current_price,    \* the current_price argument of _calculate_mos
    agents,           \* what each agent of the orchestrator does when it is called
    executed,         \* the stages analyze_stock has started, in order
    output_files,     \* the paths analyze_stock has created
    result            \* what the operation returned, or the exception it raised

vars == <<pc, veto_rules, dqa_output, va_output, condition, value, veto,
          counterarguments, stress_results, financial_data,
          mos_intrinsic_value, mos_current_price, agents, executed,
          output_files, result>>

\* The state of the orchestrator, and its value in the specifications of
\* the single agents, which run without an orchestrator.
orchestrator_state == <<agents, executed, output_files>>

NoOrchestrator ==
    /\ agents = <<>>
    /\ executed = <<>>
    /\ output_files = {}

(***************************************************************************)
(* Bounds of the model.                                                    *)
(***************************************************************************)
\* Longest run of blanks put between (and around) the tokens of a condition.
MaxBlanks == 2

\* Longest configured list of veto rules.
MaxRules == 2

\* Longest list of counter-arguments given to _make_recommendation.
MaxArguments == 4

\* Longest list of integrity warnings in a data-quality output.
MaxWarnings == 2

\* Longest history (gross margins, ROIC, revenue growth) of a financial record.
MaxHistory == 2

(***************************************************************************)
(* Python values.                                                          *)
(***************************************************************************)
\* A call that returned v, and a call that raised exception e.
Return(v) == [exc |-> "none", ret |-> v]

Raise(e) == [exc |-> e]

Unset == [exc |-> "unset"]

\* Python's None where the other values are strings.
None == "<None>"

\* The empty dict.
EmptyDict == <<>>

\* dict.get(key, default)
get(d, key, default) == IF key \in DOMAIN d THEN d[key] ELSE default

\* n whole units as hundredths.
Units(n) == n * 100

(***************************************************************************)
(* Strings as character sequences.                                         *)
(***************************************************************************)
\* The spelling of every attribute name the evaluator can be asked for: the
\* fields of DataQualityOutput and of ValuationOutput, and the alias mos.
Spelling ==
       "ticker" :> <<"t","i","c","k","e","r">>
    @@ "roic" :> <<"r","o","i","c">>
    @@ "roe" :> <<"r","o","e">>
    @@ "margin_stability" :> <<"m","a","r","g","i","n","_","s","t","a","b","i","l","i","t","y">>
    @@ "moat_score" :> <<"m","o","a","t","_","s","c","o","r","e">>
    @@ "data_warnings" :> <<"d","a","t","a","_","w","a","r","n","i","n","g","s">>
    @@ "beneish_m_score" :> <<"b","e","n","e","i","s","h","_","m","_","s","c","o","r","e">>
    @@ "cfo_ni_ratio" :> <<"c","f","o","_","n","i","_","r","a","t","i","o">>
    @@ "owner_earnings" :> <<"o","w","n","e","r","_","e","a","r","n","i","n","g","s">>
    @@ "intrinsic_value_base" :> <<"i","n","t","r","i","n","s","i","c","_","v","a","l","u","e","_","b","a","s","e">>
    @@ "intrinsic_value_low" :> <<"i","n","t","r","i","n","s","i","c","_","v","a","l","u","e","_","l","o","w">>
    @@ "intrinsic_value_high" :> <<"i","n","t","r","i","n","s","i","c","_","v","a","l","u","e","_","h","i","g","h">>
    @@ "current_price" :> <<"c","u","r","r","e","n","t","_","p","r","i","c","e">>
    @@ "margin_of_safety" :> <<"m","a","r","g","i","n","_","o","f","_","s","a","f","e","t","y">>
    @@ "dcf_assumptions" :> <<"d","c","f","_","a","s","s","u","m","p","t","i","o","n","s">>
    @@ "mos" :> <<"m","o","s">>

\* The attribute name a token spells, "" when it spells none of them.
Intern(token) ==
    IF \E n \in DOMAIN Spelling : Spelling[n] = token
    THEN CHOOSE n \in DOMAIN Spelling : Spelling[n] = token
    ELSE ""

IsSpace(c) == c \in {" ", "\t", "\n"}

\* str.split() with no argument: the maximal runs of non-blank characters.
RECURSIVE SplitFrom(_, _, _, _)
SplitFrom(s, i, cur, acc) ==
    IF i > Len(s)
    THEN IF cur = <<>> THEN acc ELSE Append(acc, cur)
    ELSE IF IsSpace(s[i])
         THEN SplitFrom(s, i + 1, <<>>, IF cur = <<>> THEN acc ELSE Append(acc, cur))
         ELSE SplitFrom(s, i + 1, Append(cur, s[i]), acc)

split(s) == SplitFrom(s, 1, <<>>, <<>>)

Digits == {"0", "1", "2", "3", "4", "5", "6", "7", "8", "9"}

DigitValue ==
       "0" :> 0 @@ "1" :> 1 @@ "2" :> 2 @@ "3" :> 3 @@ "4" :> 4
    @@ "5" :> 5 @@ "6" :> 6 @@ "7" :> 7 @@ "8" :> 8 @@ "9" :> 9

RECURSIVE Pow10(_)
Pow10(k) == IF k = 0 THEN 1 ELSE 10 * Pow10(k - 1)

\* The number spelled by a sequence of digits.
RECURSIVE DigitsValue(_)
DigitsValue(ds) ==
    IF ds = <<>> THEN 0
    ELSE 10 * DigitsValue(SubSeq(ds, 1, Len(ds) - 1)) + DigitValue[ds[Len(ds)]]

\* float(token) for a token of signs, digits, points and letters other than
\* those of an exponent, "inf" or "nan": an optional sign, then digits with
\* at most one point and at least one digit.  The value is num / den.
float(token) ==
    LET signed == token # <<>> /\ token[1] \in {"+", "-"}
        body   == IF signed THEN SubSeq(token, 2, Len(token)) ELSE token
        points == {i \in 1..Len(body) : body[i] = "."}
        digits == SelectSeq(body, LAMBDA c : c \in Digits)
        wellformed ==
            /\ \A i \in 1..Len(body) : body[i] \in Digits \cup {"."}
            /\ Cardinality(points) <= 1
            /\ digits # <<>>
        frac == IF points = {} THEN 0
                ELSE Len(body) - (CHOOSE i \in points : TRUE)
        sign == IF signed /\ token[1] = "-" THEN -1 ELSE 1
    IN  IF wellformed
        THEN [ok |-> TRUE, num |-> sign * DigitsValue(digits), den |-> Pow10(frac)]
        ELSE [ok |-> FALSE]

(***************************************************************************)
(* The metric bundles.                                                     *)
(***************************************************************************)
\* The declared type of each field of DataQualityOutput and ValuationOutput.
PyType ==
       "ticker" :> "str"
    @@ "roic" :> "float"
    @@ "roe" :> "float"
    @@ "margin_stability" :> "float"
    @@ "moat_score" :> "int"
    @@ "data_warnings" :> "list"
    @@ "beneish_m_score" :> "float"
    @@ "cfo_ni_ratio" :> "float"
    @@ "owner_earnings" :> "float"
    @@ "intrinsic_value_base" :> "float"
    @@ "intrinsic_value_low" :> "float"
    @@ "intrinsic_value_high" :> "float"
    @@ "current_price" :> "float"
    @@ "margin_of_safety" :> "float"
    @@ "dcf_assumptions" :> "dict"

\* The fields of a DataQualityOutput, in declaration order.
DataQualityOutput(ticker, roic, roe, margin_stability, moat_score, data_warnings, beneish_m_score, cfo_ni_ratio) ==
    [ticker |-> ticker, roic |-> roic, roe |-> roe,
     margin_stability |-> margin_stability, moat_score |-> moat_score,
     data_warnings |-> data_warnings, beneish_m_score |-> beneish_m_score,
     cfo_ni_ratio |-> cfo_ni_ratio]

\* The fields of a ValuationOutput, in declaration order.
ValuationOutput(ticker, owner_earnings, intrinsic_value_base, intrinsic_value_low, intrinsic_value_high, current_price, margin_of_safety, dcf_assumptions) ==
    [ticker |-> ticker, owner_earnings |-> owner_earnings,
     intrinsic_value_base |-> intrinsic_value_base,
     intrinsic_value_low |-> intrinsic_value_low,
     intrinsic_value_high |-> intrinsic_value_high,
     current_price |-> current_price, margin_of_safety |-> margin_of_safety,
     dcf_assumptions |-> dcf_assumptions]

hasattr(obj, name) == name \in DOMAIN obj

\* getattr(obj, name, default)
getattr(obj, name, default) == IF hasattr(obj, name) THEN obj[name] ELSE default

(***************************************************************************)
(* DataQualityAgent._compute_moat_score                                    *)
(*                                                                         *)
(* Histories are sequences of hundredths.  The score is summed in units   *)
(* of 1/3000 of a point, in which the mean of up to six values times 40,   *)
(* 80 or 100 is a whole number.  Each term carries two flags: exact, the   *)
(* term is the real value (otherwise it lies less than one unit above it), *)
(* and binary, the double the code holds is the real value as well.        *)
(***************************************************************************)
RECURSIVE Sum(_)
Sum(xs) == IF xs = <<>> THEN 0 ELSE xs[1] + Sum(Tail(xs))

RECURSIVE SumSq(_)
SumSq(xs) == IF xs = <<>> THEN 0 ELSE xs[1] * xs[1] + SumSq(Tail(xs))

Min(a, b) == IF a <= b THEN a ELSE b

Max(a, b) == IF a >= b THEN a ELSE b

\* The largest r in lo..hi with r * r <= n.
RECURSIVE IsqrtIn(_, _, _)
IsqrtIn(n, lo, hi) ==
    IF lo = hi THEN lo
    ELSE LET mid == (lo + hi + 1) \div 2
         IN  IF mid * mid <= n THEN IsqrtIn(n, mid, hi) ELSE IsqrtIn(n, lo, mid - 1)

Isqrt(n) == IsqrtIn(n, 0, 46340)

\* The values are quarters and their number is a power of two: their mean,
\* and its product with a whole number, are computed without rounding.
IsBinary(xs) ==
    /\ Len(xs) \in {1, 2, 4}
    /\ \A i \in 1..Len(xs) : xs[i] % 25 = 0

\* statistics.mean(xs) * k: xs is in hundredths, so the product is
\* 30 * k * Sum(xs) / Len(xs) units.
mean_times(xs, k) ==
    LET num == 30 * k * Sum(xs)
        n   == Len(xs)
    IN  [m |-> -((-num) \div n), exact |-> num % n = 0, binary |-> IsBinary(xs)]

\* min(cap, level) and max(floor, level): a level strictly beyond the limit
\* is replaced by the limit, which is a whole number.
min(cap, level) ==
    IF level.m > cap THEN [m |-> cap, exact |-> TRUE, binary |-> TRUE] ELSE level

max(floor, level) ==
    IF level.m < floor \/ (level.m = floor /\ ~level.exact)
    THEN [m |-> floor, exact |-> TRUE, binary |-> TRUE]
    ELSE level

\* max(0, 15 - statistics.stdev(xs) * k).  With D = n * SumSq - Sum^2 the
\* sample variance is D / (n * (n - 1)) and the square of stdev * k in units
\* is 900 * k^2 * D / (n * (n - 1)); the score is 0 from a variance of
\* 2250000 / k^2 on.  The square root is truncated, so an inexact term lies
\* above the real one.
volatility_score(xs, k) ==
    LET n  == Len(xs)
        d  == n * SumSq(xs) - Sum(xs) * Sum(xs)
        nn == n * (n - 1)
        q  == 900 * k * k
        sq == (q \div nn) * d + ((q % nn) * d) \div nn
        r  == Isqrt(sq)
        limit == (2250000 \div (k * k)) * nn
    IN  IF d = 0 THEN [m |-> 45000, exact |-> TRUE, binary |-> TRUE]
        ELSE IF d >= limit THEN [m |-> 0, exact |-> TRUE, binary |-> d > limit]
        ELSE [m |-> 45000 - r, binary |-> FALSE,
              exact |-> ((q % nn) * d) % nn = 0 /\ r * r = sq]

\* A stability component that gives nothing to a single data point.
no_credit == [m |-> 0, exact |-> TRUE, binary |-> TRUE]

half_credit == [m |-> 22500, exact |-> TRUE, binary |-> TRUE]

\* Lines 156-171: pricing power, up to 20 + 15 points.
pricing_power(data) ==
    LET gross_margins == get(data, "gross_margin", <<>>)
    IN  IF Len(gross_margins) >= 1
        THEN LET level_score == min(60000, mean_times(gross_margins, 40))
                 stability_score ==
                     IF Len(gross_margins) >= 2
                     THEN volatility_score(gross_margins, 75)
                     ELSE half_credit
             IN  <<level_score, stability_score>>
        ELSE <<>>

\* Lines 174-189: ROIC persistence, up to 20 + 15 points.
roic_persistence(data) ==
    LET roic_history == get(data, "roic_history", <<>>)
    IN  IF Len(roic_history) >= 1
        THEN LET level_score == min(60000, mean_times(roic_history, 80))
                 consistency_score ==
                     IF Len(roic_history) >= 2
                     THEN volatility_score(roic_history, 150)
                     ELSE half_credit
             IN  <<level_score, consistency_score>>
        ELSE <<>>

\* Lines 192-208: revenue growth stability, up to 15 + 15 points.
growth_stability(data) ==
    LET revenue_growth == get(data, "revenue_growth", <<>>)
    IN  IF Len(revenue_growth) >= 1
        THEN LET level_score == max(0, min(45000, mean_times(revenue_growth, 100)))
                 stability_score ==
                     IF Len(revenue_growth) >= 2
                     THEN volatility_score(revenue_growth, 150)
                     ELSE half_credit
             IN  <<level_score, stability_score>>
        ELSE <<>>

\* int(round(score)) of the sum of the terms.  With j inexact terms the real
\* sum lies in the j units below the sum kept here.  Python rounds a half to
\* the even neighbour; a half that the doubles of the code do not hold
\* exactly, or a sum closer to a half than the units tell, is rounded to one
\* of the two neighbours by the rounding error of the doubles.
round(terms) ==
    LET score  == Sum([i \in 1..Len(terms) |-> terms[i].m])
        j      == Cardinality({i \in 1..Len(terms) : ~terms[i].exact})
        binary == \A i \in 1..Len(terms) : terms[i].binary
        whole  == score \div 3000
        rest   == score % 3000
        even   == IF whole % 2 = 0 THEN whole ELSE whole + 1
    IN  IF j = 0
        THEN IF rest > 1500 THEN {whole + 1}
             ELSE IF rest < 1500 THEN {whole}
             ELSE IF binary THEN {even}
             ELSE {whole, whole + 1}
        ELSE IF rest >= 1500 + j THEN {whole + 1}
             ELSE IF rest <= 1500 THEN {whole}
             ELSE {whole, whole + 1}

\* Lines 153-211: the sum of the three factors, rounded and capped at 100;
\* the set of the scores the rounding can give.
_compute_moat_score(data) ==
    {Units(Min(100, score)) :
        score \in round(pricing_power(data) \o roic_persistence(data)
                            \o growth_stability(data))}

(***************************************************************************)
(* DevilsAdvocateAgent._evaluate_condition                                 *)
(***************************************************************************)
\* The metric lookup with the two bundles probed in the opposite order.
ResolveMetricVaFirst(metric, dqa, va) ==
    IF hasattr(va, metric)
    THEN [found |-> TRUE, v |-> va[metric], type |-> PyType[metric]]
    ELSE IF hasattr(dqa, metric)
    THEN [found |-> TRUE, v |-> dqa[metric], type |-> PyType[metric]]
    ELSE IF metric = "mos"
    THEN [found |-> TRUE, v |-> getattr(va, "margin_of_safety", 0),
          type |-> IF hasattr(va, "margin_of_safety")
                   THEN PyType["margin_of_safety"] ELSE "int"]
    ELSE [found |-> FALSE]

\* Lines 149-156: the value of the metric, looked up in the data-quality
\* output, then in the valuation output, then as the alias mos.
ResolveMetric(metric, dqa, va) ==
    IF hasattr(dqa, metric)
    THEN [found |-> TRUE, v |-> dqa[metric], type |-> PyType[metric]]
    ELSE IF hasattr(va, metric)
    THEN [found |-> TRUE, v |-> va[metric], type |-> PyType[metric]]
    ELSE IF metric = "mos"
    THEN [found |-> TRUE, v |-> getattr(va, "margin_of_safety", 0),
          type |-> IF hasattr(va, "margin_of_safety")
                   THEN PyType["margin_of_safety"] ELSE "int"]
    ELSE [found |-> FALSE]

IsNumber(type) == type \in {"float", "int"}

\* The comparison with an operator outside the five answered True.
ApplyOperatorLax(operator, v, type, threshold) ==
    LET lhs == v * threshold.den
        rhs == threshold.num * 100
        ordering(b) == IF IsNumber(type) THEN Return(b) ELSE Raise("TypeError")
    IN  IF operator = <<">">> THEN ordering(IsNumber(type) /\ lhs > rhs)
        ELSE IF operator = <<"<">> THEN ordering(IsNumber(type) /\ lhs < rhs)
        ELSE IF operator = <<">", "=">> THEN ordering(IsNumber(type) /\ lhs >= rhs)
        ELSE IF operator = <<"<", "=">> THEN ordering(IsNumber(type) /\ lhs <= rhs)
        ELSE IF operator = <<"=", "=">> THEN Return(IsNumber(type) /\ lhs = rhs)
        ELSE Return(TRUE)

\* Lines 159-170: value OP threshold.  v is in hundredths and the threshold
\* is num / den, so v / 100 OP num / den is v * den OP num * 100.  An
\* ordering of a str, a list or a dict against a float raises TypeError;
\* their equality with a float is False.
ApplyOperator(operator, v, type, threshold) ==
    LET lhs == v * threshold.den
        rhs == threshold.num * 100
        ordering(b) == IF IsNumber(type) THEN Return(b) ELSE Raise("TypeError")
    IN  IF operator = <<">">> THEN ordering(IsNumber(type) /\ lhs > rhs)
        ELSE IF operator = <<"<">> THEN ordering(IsNumber(type) /\ lhs < rhs)
        ELSE IF operator = <<">", "=">> THEN ordering(IsNumber(type) /\ lhs >= rhs)
        ELSE IF operator = <<"<", "=">> THEN ordering(IsNumber(type) /\ lhs <= rhs)
        ELSE IF operator = <<"=", "=">> THEN Return(IsNumber(type) /\ lhs = rhs)
        ELSE Return(FALSE)

\* The local `value` once line 156 is passed, unbound when the function
\* returned before.
_evaluate_condition_value(cond, dqa, va) ==
    LET parts == split(cond)
    IN  IF Len(parts) # 3 THEN [bound |-> FALSE]
        ELSE IF ~float(parts[3]).ok THEN [bound |-> FALSE]
        ELSE LET r == ResolveMetric(Intern(parts[1]), dqa, va)
             IN  IF r.found THEN [bound |-> TRUE, v |-> r.v] ELSE [bound |-> FALSE]

_evaluate_condition(cond, dqa, va) ==
    LET parts == split(cond)
    IN  IF Len(parts) # 3 THEN Return(FALSE)
        ELSE LET metric    == parts[1]
                 operator  == parts[2]
                 threshold == float(parts[3])
             IN  IF ~threshold.ok THEN Return(FALSE)
                 ELSE LET r == ResolveMetric(Intern(metric), dqa, va)
                      IN  IF ~r.found THEN Return(FALSE)
                          ELSE ApplyOperator(operator, r.v, r.type, threshold)

(***************************************************************************)
(* DevilsAdvocateAgent._check_veto_rules                                   *)
(***************************************************************************)
\* Lines 104-118: the rules in list order; a rule whose severity is not "A"
\* is skipped, the first one whose condition holds returns (True,
\* description), an exception of _evaluate_condition leaves the function,
\* and the end of the list returns (False, None).
RECURSIVE CheckVetoRulesFrom(_, _, _, _)
CheckVetoRulesFrom(rules, i, dqa, va) ==
    IF i > Len(rules) THEN Return([veto |-> FALSE, reason |-> None])
    ELSE LET rule == rules[i]
         IN  IF get(rule, "severity", None) # "A"
             THEN CheckVetoRulesFrom(rules, i + 1, dqa, va)
             ELSE LET cond        == get(rule, "condition", <<>>)
                      description == get(rule, "description", "")
                      triggered   == _evaluate_condition(cond, dqa, va)
                  IN  IF triggered.exc # "none" THEN triggered
                      ELSE IF triggered.ret
                      THEN Return([veto |-> TRUE, reason |-> description])
                      ELSE CheckVetoRulesFrom(rules, i + 1, dqa, va)

_check_veto_rules(rules, dqa, va) == CheckVetoRulesFrom(rules, 1, dqa, va)

(***************************************************************************)
(* DevilsAdvocateAgent._generate_counterarguments                          *)
(***************************************************************************)
\* A CounterArgument.  Its three texts are formatted from the metric; the
\* model keeps the constant start of the claim text, which tells the findings
\* of one category apart.
CounterArgument(severity, category, claim) ==
    [severity |-> severity, category |-> category, claim |-> claim]

\* The severity with a value at the critical cut-off taken as critical.
profitability_severity_strict(metric, critical) ==
    IF metric > critical THEN "B" ELSE "A"

\* Lines 192 and 202: B for a value at or above the critical cut-off, else A.
profitability_severity(metric, critical) ==
    IF metric >= critical THEN "B" ELSE "A"

\* The valuation severity with two levels only.
valuation_severity_two_levels(margin_of_safety) ==
    IF margin_of_safety < 10 THEN "A" ELSE "B"

\* Lines 232-240: A below 0.10, B below 0.20, C otherwise.
valuation_severity(margin_of_safety) ==
    IF margin_of_safety < 10 THEN "A"
    ELSE IF margin_of_safety < 20 THEN "B"
    ELSE "C"

\* The cash finding emitted for every ratio below 0.8.
cash_quality_emitted_below(cfo_ni_ratio) == cfo_ni_ratio < 80

\* Lines 251-252: the cash finding is emitted for a ratio below 0.8 that
\* is at least 0.5.
cash_quality_emitted(cfo_ni_ratio) == cfo_ni_ratio < 80 /\ cfo_ni_ratio >= 50

\* Every warning re-surfaced, whatever its severity.
is_flagged_any(warning) == warning.severity \in {"A", "B", "C"}

\* Line 275: the warnings that are re-surfaced as findings.
is_flagged(warning) == warning.severity \in {"A", "B"}

\* Lines 188-284: one block per metric, appended in this order.
_generate_counterarguments(ticker, dqa, va) ==
    LET roic_args ==
            IF dqa.roic < 12
            THEN <<CounterArgument(profitability_severity(dqa.roic, 8),
                                   "profitability", "Below-average ROIC")>>
            ELSE <<>>
        roe_args ==
            IF dqa.roe < 15
            THEN <<CounterArgument(profitability_severity(dqa.roe, 10),
                                   "profitability", "Subpar ROE")>>
            ELSE <<>>
        moat_args ==
            IF dqa.moat_score < Units(60)
            THEN IF dqa.moat_score < Units(40)
                 THEN <<CounterArgument("A", "competitive_moat",
                                        "No durable competitive advantage")>>
                 ELSE <<CounterArgument("B", "competitive_moat",
                                        "Weak competitive moat")>>
            ELSE <<>>
        mos_args ==
            IF va.margin_of_safety < 30
            THEN LET severity == valuation_severity(va.margin_of_safety)
                     claim == IF severity = "A" THEN "Minimal margin of safety"
                              ELSE IF severity = "B" THEN "Thin margin of safety"
                              ELSE "Modest margin of safety"
                 IN  <<CounterArgument(severity, "valuation", claim)>>
            ELSE <<>>
        cash_args ==
            IF cash_quality_emitted(dqa.cfo_ni_ratio)
            THEN <<CounterArgument("B", "cash_quality", "Weak cash conversion")>>
            ELSE <<>>
        stability_args ==
            IF dqa.margin_stability > 10
            THEN <<CounterArgument(IF dqa.margin_stability < 15 THEN "B" ELSE "A",
                                   "business_stability", "High margin volatility")>>
            ELSE <<>>
        flagged == SelectSeq(dqa.data_warnings, is_flagged)
        warning_args ==
            [i \in 1..Len(flagged) |->
                CounterArgument(flagged[i].severity, "data_quality", "Data quality issue")]
    IN  roic_args \o roe_args \o moat_args \o mos_args \o cash_args
            \o stability_args \o warning_args

(***************************************************************************)
(* DevilsAdvocateAgent._make_recommendation                                *)
(***************************************************************************)
\* The count of A-level concerns taking the B-level ones in.
a_level_count_with_b(args) ==
    Cardinality({i \in 1..Len(args) : args[i].severity \in {"A", "B"}})

\* sum(1 for arg in counterarguments if arg.severity == "A")
a_level_count(args) ==
    Cardinality({i \in 1..Len(args) : args[i].severity = "A"})

\* sum(1 for arg in counterarguments if arg.severity == "B")
b_level_count(args) ==
    Cardinality({i \in 1..Len(args) : args[i].severity = "B"})

\* The rules with the veto looked at after the counts.
_make_recommendation_veto_last(v, args, stress) ==
    IF a_level_count(args) >= 2 THEN "REJECT"
    ELSE IF b_level_count(args) >= 3 THEN "REDUCE"
    ELSE IF get(stress, "failed", FALSE) THEN "REDUCE"
    ELSE IF a_level_count(args) = 1 THEN "REDUCE"
    ELSE IF v THEN "REJECT"
    ELSE "PROCEED"

\* The rules without the last one, on a single A-level concern.
_make_recommendation_without_rule5(v, args, stress) ==
    IF v THEN "REJECT"
    ELSE IF a_level_count(args) >= 2 THEN "REJECT"
    ELSE IF b_level_count(args) >= 3 THEN "REDUCE"
    ELSE IF get(stress, "failed", FALSE) THEN "REDUCE"
    ELSE "PROCEED"

\* Lines 344-368, the five rules in order.
\* Rule 2 applied to exactly two A-level concerns only.
_make_recommendation_exactly_two(v, args, stress) ==
    IF v THEN "REJECT"
    ELSE IF a_level_count(args) = 2 THEN "REJECT"
    ELSE IF b_level_count(args) >= 3 THEN "REDUCE"
    ELSE IF get(stress, "failed", FALSE) THEN "REDUCE"
    ELSE IF a_level_count(args) = 1 THEN "REDUCE"
    ELSE "PROCEED"

_make_recommendation(v, args, stress) ==
    IF v THEN "REJECT"
    ELSE IF a_level_count(args) >= 2 THEN "REJECT"
    ELSE IF b_level_count(args) >= 3 THEN "REDUCE"
    ELSE IF get(stress, "failed", FALSE) THEN "REDUCE"
    ELSE IF a_level_count(args) = 1 THEN "REDUCE"
    ELSE "PROCEED"

(***************************************************************************)
(* DevilsAdvocateAgent.analyze                                             *)
(***************************************************************************)
DevilsAdvocateOutput(ticker, v, veto_reason, args, required_adjustments, stress_test_results, final_recommendation) ==
    [ticker |-> ticker, veto |-> v, veto_reason |-> veto_reason,
     counterarguments |-> args, required_adjustments |-> required_adjustments,
     stress_test_results |-> stress_test_results,
     final_recommendation |-> final_recommendation]

\* analyze with stress tests that report a failure.
analyze_stress_failed(rules, ticker, dqa, va) ==
    LET checked == _check_veto_rules(rules, dqa, va)
    IN  IF checked.exc # "none" THEN checked
        ELSE LET args                 == _generate_counterarguments(ticker, dqa, va)
                 stress_test_results  == [failed |-> TRUE]
                 required_adjustments == <<>>
                 final_recommendation ==
                     _make_recommendation(checked.ret.veto, args, stress_test_results)
             IN  Return(DevilsAdvocateOutput(ticker, checked.ret.veto, checked.ret.reason,
                                             args, required_adjustments,
                                             stress_test_results, final_recommendation))

\* Lines 66-89.  An exception of the veto check leaves analyze.
analyze(rules, ticker, dqa, va) ==
    LET checked == _check_veto_rules(rules, dqa, va)
    IN  IF checked.exc # "none" THEN checked
        ELSE LET args                 == _generate_counterarguments(ticker, dqa, va)
                 stress_test_results  == EmptyDict
                 required_adjustments == <<>>
                 final_recommendation ==
                     _make_recommendation(checked.ret.veto, args, stress_test_results)
             IN  Return(DevilsAdvocateOutput(ticker, checked.ret.veto, checked.ret.reason,
                                             args, required_adjustments,
                                             stress_test_results, final_recommendation))

(***************************************************************************)
(* Inputs.                                                                 *)
(***************************************************************************)
\* The fixtures of the agent's tests: a company with no red flag.
clean_dqa_output ==
    DataQualityOutput("GOOD", 18, 22, 5, Units(75), <<>>, -280, 110)

clean_va_output ==
    ValuationOutput("GOOD", Units(1000), Units(150), Units(120), Units(180),
                    Units(100), 33, "growth_rate" :> 5 @@ "discount_rate" :> 10)

Blanks(n) == [i \in 1..n |-> " "]

\* First tokens: numeric fields of either bundle, the alias, the three
\* fields that are no numbers, and a name of no field.
MetricTokens ==
    {Spelling["moat_score"], Spelling["margin_of_safety"], Spelling["mos"],
     Spelling["ticker"], Spelling["data_warnings"], Spelling["dcf_assumptions"],
     <<"b","o","g","u","s">>}

Operators == {<<">">>, <<"<">>, <<">", "=">>, <<"<", "=">>, <<"=", "=">>}

OperatorTokens == Operators \cup {<<"!", "=">>}

\* Third tokens: 40, 0.10 and 5. are numbers; abc, 1.2.3 and - are not.
ThresholdTokens ==
    {<<"4","0">>, <<"0",".","1","0">>, <<"5",".">>,
     <<"a","b","c">>, <<"1",".","2",".","3">>, <<"-">>}

\* What follows the third token: nothing, a blank, or a fourth token.
Tails == {<<>>, <<" ">>, <<" ", "x">>}

\* Condition strings: three tokens joined by 0..MaxBlanks blanks each (no
\* blank glues two tokens into one), then a tail.
Conditions ==
    {m \o Blanks(s1) \o o \o Blanks(s2) \o t \o tail :
        m \in MetricTokens, o \in OperatorTokens, t \in ThresholdTokens,
        s1 \in 0..MaxBlanks, s2 \in 0..MaxBlanks, tail \in Tails}

\* Bundles on either side of the thresholds 40 and 0.10.
CondDqaOutputs ==
    {[clean_dqa_output EXCEPT !.moat_score = ms] : ms \in {Units(5), Units(40), Units(75)}}

CondVaOutputs ==
    {[clean_va_output EXCEPT !.margin_of_safety = m, !.ticker = t] :
        m \in {5, 10, 33}, t \in {"GOOD", "BAD"}}

(***************************************************************************)
(* The evaluation of one rule condition.                                   *)
(***************************************************************************)
InitCond ==
    /\ pc = "call"
    /\ condition \in Conditions
    /\ dqa_output \in CondDqaOutputs
    /\ va_output \in CondVaOutputs
    /\ veto_rules = <<>>
    /\ value = [bound |-> FALSE]
    /\ veto = FALSE
    /\ counterarguments = <<>>
    /\ stress_results = EmptyDict
    /\ financial_data = EmptyDict
    /\ mos_intrinsic_value = 0
    /\ mos_current_price = 0
    /\ result = Unset
    /\ NoOrchestrator

EvaluateCondition ==
    /\ pc = "call"
    /\ pc' = "done"
    /\ result' = _evaluate_condition(condition, dqa_output, va_output)
    /\ value' = _evaluate_condition_value(condition, dqa_output, va_output)
    /\ UNCHANGED <<veto_rules, dqa_output, va_output, condition, veto,
                   counterarguments, stress_results, financial_data,
                   mos_intrinsic_value, mos_current_price, agents, executed,
                   output_files>>

NextCond == EvaluateCondition

SpecCond == InitCond /\ [][NextCond]_vars

(***************************************************************************)
(* Claims about _evaluate_condition, checked under SpecCond.               *)
(***************************************************************************)
\* The four ways a condition is malformed: not three tokens, a third token
\* that is no number, a first token that names no field of either bundle and
\* is not mos, a second token outside the five operators.
Malformed(cond, dqa, va) ==
    LET parts == split(cond)
    IN  \/ Len(parts) # 3
        \/ ~float(parts[3]).ok
        \/ /\ ~hasattr(dqa, Intern(parts[1]))
           /\ ~hasattr(va, Intern(parts[1]))
           /\ parts[1] # <<"m", "o", "s">>
        \/ parts[2] \notin Operators

\* C7: _evaluate_condition returns False for every malformed condition
\* (wrong token count, non-numeric threshold, unknown metric, unknown
\* operator).
C7_MalformedIsFalse ==
    (pc = "done" /\ Malformed(condition, dqa_output, va_output))
        => result = Return(FALSE)

\* An unknown operator applied to a field that is no number was evaluated and
\* answered False.
C7_Witness ==
    /\ pc = "done"
    /\ Len(split(condition)) = 3
    /\ float(split(condition)[3]).ok
    /\ Intern(split(condition)[1]) = "ticker"
    /\ split(condition)[2] = <<"!", "=">>
    /\ result = Return(FALSE)

\* C8: evaluating a condition never raises: for every condition string and
\* every pair of bundles _evaluate_condition returns a boolean.
C8_NeverRaises == pc = "done" => result.exc = "none"

\* C9: the metric is resolved in the data-quality output first, then in the
\* valuation output, then as the alias mos: a name of both bundles takes the
\* data-quality value, a name of the valuation output alone takes that value,
\* and "mos OP t" evaluates as "margin_of_safety OP t" does.
C9_ResolutionOrder ==
    pc = "done" =>
        LET parts == split(condition)
            name  == Intern(parts[1])
        IN  /\ (value.bound /\ hasattr(dqa_output, name))
                    => value.v = dqa_output[name]
            /\ (value.bound /\ ~hasattr(dqa_output, name) /\ hasattr(va_output, name))
                    => value.v = va_output[name]
            /\ (Len(parts) = 3 /\ parts[1] = Spelling["mos"])
                    => result = _evaluate_condition(
                                    Spelling["margin_of_safety"] \o <<" ">> \o parts[2]
                                        \o <<" ">> \o parts[3],
                                    dqa_output, va_output)

\* "mos < 0.10" was evaluated on a 5% margin of safety and answered True, and
\* so was a condition on ticker with the two bundles' tickers different.
C9_Witness ==
    /\ pc = "done"
    /\ Len(split(condition)) = 3
    /\ split(condition)[1] = Spelling["mos"]
    /\ split(condition)[2] = <<"<">>
    /\ va_output.margin_of_safety = 5
    /\ va_output.ticker # dqa_output.ticker
    /\ result = Return(TRUE)

(***************************************************************************)
(* The veto check of one rule list.                                        *)
(***************************************************************************)
VetoRule(name, severity, cond, description) ==
    [name |-> name, severity |-> severity, condition |-> cond, description |-> description]

Cond3(metric, operator, threshold) ==
    metric \o <<" ">> \o operator \o <<" ">> \o threshold

\* Three rules of the tests' configuration.
earnings_manipulation_risk ==
    VetoRule("earnings_manipulation_risk", "A",
             Cond3(Spelling["beneish_m_score"], <<">">>, <<"-","2",".","2">>),
             "High probability of earnings manipulation")

no_competitive_moat ==
    VetoRule("no_competitive_moat", "A",
             Cond3(Spelling["moat_score"], <<"<">>, <<"4","0">>),
             "Weak or non-existent competitive advantages")

no_margin_of_safety ==
    VetoRule("no_margin_of_safety", "A",
             Cond3(Spelling["mos"], <<"<">>, <<"0",".","1","0">>),
             "Insufficient margin of safety")

\* Rules as a configuration file may hold them: an advisory rule on the
\* moat score, a rule with no severity, a rule with no description, a rule
\* with a misspelt threshold, and a rule on a field that is no number.
RulePool ==
    {earnings_manipulation_risk, no_competitive_moat, no_margin_of_safety,
     VetoRule("weak_moat", "B", Cond3(Spelling["moat_score"], <<"<">>, <<"6","0">>),
              "Moat below the quality bar"),
     [name |-> "unrated", condition |-> Cond3(Spelling["moat_score"], <<"<">>, <<"4","0">>),
      description |-> "Rule without a severity"],
     [name |-> "undescribed", severity |-> "A",
      condition |-> Cond3(Spelling["mos"], <<"<">>, <<"0",".","1","0">>)],
     VetoRule("misspelt", "A", Cond3(Spelling["moat_score"], <<"<">>, <<"4","O">>),
              "Threshold is not a number"),
     VetoRule("ticker_rule", "A", Cond3(Spelling["ticker"], <<">">>, <<"0">>),
              "Rule on the ticker")}

RuleLists == UNION {[1..n -> RulePool] : n \in 0..MaxRules}

VetoDqaOutputs ==
    {[clean_dqa_output EXCEPT !.moat_score = ms, !.beneish_m_score = b] :
        ms \in {Units(25), Units(75)}, b \in {-280, -100}}

VetoVaOutputs ==
    {[clean_va_output EXCEPT !.margin_of_safety = m] : m \in {5, 33}}

InitVeto ==
    /\ pc = "call"
    /\ veto_rules \in RuleLists
    /\ dqa_output \in VetoDqaOutputs
    /\ va_output \in VetoVaOutputs
    /\ condition = <<>>
    /\ value = [bound |-> FALSE]
    /\ veto = FALSE
    /\ counterarguments = <<>>
    /\ stress_results = EmptyDict
    /\ financial_data = EmptyDict
    /\ mos_intrinsic_value = 0
    /\ mos_current_price = 0
    /\ result = Unset
    /\ NoOrchestrator

CheckVetoRules ==
    /\ pc = "call"
    /\ pc' = "done"
    /\ result' = _check_veto_rules(veto_rules, dqa_output, va_output)
    /\ UNCHANGED <<veto_rules, dqa_output, va_output, condition, value, veto,
                   counterarguments, stress_results, financial_data,
                   mos_intrinsic_value, mos_current_price, agents, executed,
                   output_files>>

NextVeto == CheckVetoRules

SpecVeto == InitVeto /\ [][NextVeto]_vars

\* Rule i takes part in the veto check and its condition evaluates true.
Fires(i) ==
    /\ get(veto_rules[i], "severity", None) = "A"
    /\ _evaluate_condition(get(veto_rules[i], "condition", <<>>), dqa_output, va_output)
           = Return(TRUE)

\* C5: when a severity-A rule's condition evaluates true, _check_veto_rules
\* returns veto=True with the description of the first such rule in list
\* order, whatever rules stand before or after it.
C5_FirstMatchingRule ==
    (pc = "done" /\ \E i \in 1..Len(veto_rules) : Fires(i)) =>
        LET first == CHOOSE i \in 1..Len(veto_rules) :
                        Fires(i) /\ \A j \in 1..(i - 1) : ~Fires(j)
        IN  result = Return([veto |-> TRUE,
                             reason |-> get(veto_rules[first], "description", "")])

\* C6: _check_veto_rules returns (False, None) exactly when no severity-A
\* rule's condition evaluates true; a rule of another severity never causes
\* a veto, and the reason is None exactly when veto is False.
C6_NoVetoIffNoMatch ==
    pc = "done" =>
        /\ result.exc = "none"
        /\ (result.ret = [veto |-> FALSE, reason |-> None])
               <=> ~\E i \in 1..Len(veto_rules) : Fires(i)
        /\ (result.ret.reason = None) <=> (result.ret.veto = FALSE)

(***************************************************************************)
(* The recommendation for one veto flag, list of findings and stress       *)
(* result.                                                                 *)
(***************************************************************************)
Severities == {"A", "B", "C"}

ArgumentPool ==
    {CounterArgument(sev, "profitability", "Below-average ROIC") : sev \in Severities}

ArgumentLists == UNION {[1..n -> ArgumentPool] : n \in 0..MaxArguments}

\* stress_results: no "failed" key, or one of either value.
StressResults == {EmptyDict, [failed |-> FALSE], [failed |-> TRUE]}

InitRec ==
    /\ pc = "call"
    /\ veto \in BOOLEAN
    /\ counterarguments \in ArgumentLists
    /\ stress_results \in StressResults
    /\ veto_rules = <<>>
    /\ dqa_output = clean_dqa_output
    /\ va_output = clean_va_output
    /\ condition = <<>>
    /\ value = [bound |-> FALSE]
    /\ financial_data = EmptyDict
    /\ mos_intrinsic_value = 0
    /\ mos_current_price = 0
    /\ result = Unset
    /\ NoOrchestrator

MakeRecommendation ==
    /\ pc = "call"
    /\ pc' = "done"
    /\ result' = Return(_make_recommendation(veto, counterarguments, stress_results))
    /\ UNCHANGED <<veto_rules, dqa_output, va_output, condition, value, veto,
                   counterarguments, stress_results, financial_data,
                   mos_intrinsic_value, mos_current_price, agents, executed,
                   output_files>>

NextRec == MakeRecommendation

SpecRec == InitRec /\ [][NextRec]_vars

\* The findings of one severity in a list.
Count(args, sev) == Cardinality({i \in DOMAIN args : args[i].severity = sev})

\* C1: _make_recommendation returns REJECT whenever veto is true, for every
\* list of findings and every stress result.
C1_VetoRejects == (pc = "done" /\ veto) => result = Return("REJECT")

\* A veto was answered REJECT although the list has three B findings and no
\* A finding.
C1_Witness ==
    /\ pc = "done"
    /\ veto
    /\ Count(counterarguments, "A") = 0
    /\ Count(counterarguments, "B") >= 3
    /\ result = Return("REJECT")

\* C2: with veto false, _make_recommendation returns REJECT when the list
\* holds two or more A findings, whatever the B and C findings, and only
\* then.
C2_TwoARejects ==
    (pc = "done" /\ ~veto) =>
        (result = Return("REJECT") <=> Count(counterarguments, "A") >= 2)

\* Two A findings among B and C findings were answered REJECT without veto.
C2_Witness ==
    /\ pc = "done"
    /\ ~veto
    /\ Count(counterarguments, "A") = 2
    /\ Count(counterarguments, "B") >= 1
    /\ Count(counterarguments, "C") >= 1
    /\ result = Return("REJECT")

\* C3: with veto false and fewer than two A findings, the answer is REDUCE
\* whenever there is exactly one A finding or there are three or more B
\* findings; a single A finding is answered neither PROCEED nor REJECT.
C3_Reduce ==
    (/\ pc = "done"
     /\ ~veto
     /\ Count(counterarguments, "A") < 2
     /\ \/ Count(counterarguments, "A") = 1
        \/ Count(counterarguments, "B") >= 3)
        => result = Return("REDUCE")

\* A single A finding, with no stress failure and fewer than three B
\* findings, was answered REDUCE.
C3_Witness ==
    /\ pc = "done"
    /\ ~veto
    /\ Count(counterarguments, "A") = 1
    /\ Count(counterarguments, "B") < 3
    /\ ~get(stress_results, "failed", FALSE)
    /\ result = Return("REDUCE")

(***************************************************************************)
(* The Devil's Advocate analysis of one pair of bundles under one          *)
(* configuration.                                                          *)
(***************************************************************************)
Warning(severity, category) == [severity |-> severity, category |-> category]

\* Warnings of the integrity check, one of each severity.
WarningPool ==
    {Warning("A", "earnings_quality"), Warning("B", "cash_quality"),
     Warning("C", "missing_data")}

WarningLists == UNION {[1..n -> WarningPool] : n \in 0..MaxWarnings}

\* The five rules of the tests' configuration, in its order.
poor_cash_conversion ==
    VetoRule("poor_cash_conversion", "A",
             Cond3(Spelling["cfo_ni_ratio"], <<"<">>, <<"0",".","5">>),
             "Operating cash flow significantly below net income")

test_veto_rules ==
    <<earnings_manipulation_risk,
      poor_cash_conversion,
      no_competitive_moat,
      no_margin_of_safety,
      VetoRule("negative_owner_earnings", "A",
               Cond3(Spelling["owner_earnings"], <<"<">>, <<"0">>),
               "Company consuming cash rather than generating it")>>

\* Configurations: no rule, the tests' rules, and a rule on a field that is
\* no number.
DaConfigs ==
    {<<>>, test_veto_rules,
     <<VetoRule("ticker_rule", "A", Cond3(Spelling["ticker"], <<">">>, <<"0">>),
                "Rule on the ticker")>>}

\* Data-quality outputs on either side of the generator's thresholds.
DaDqaOutputs ==
    {DataQualityOutput("GOOD", roic, roe, stability, moat, warnings, beneish, cfo) :
        roic \in {5, 8, 12}, roe \in {9, 15}, stability \in {10, 16},
        moat \in {Units(39), Units(60)}, warnings \in WarningLists,
        beneish \in {-280, -100}, cfo \in {0, 50, 80}}

DaVaOutputs ==
    {[clean_va_output EXCEPT !.margin_of_safety = m] : m \in {5, 10, 20, 30}}

InitDA ==
    /\ pc = "call"
    /\ veto_rules \in DaConfigs
    /\ dqa_output \in DaDqaOutputs
    /\ va_output \in DaVaOutputs
    /\ condition = <<>>
    /\ value = [bound |-> FALSE]
    /\ veto = FALSE
    /\ counterarguments = <<>>
    /\ stress_results = EmptyDict
    /\ financial_data = EmptyDict
    /\ mos_intrinsic_value = 0
    /\ mos_current_price = 0
    /\ result = Unset
    /\ NoOrchestrator

Analyze ==
    /\ pc = "call"
    /\ pc' = "done"
    /\ result' = analyze(veto_rules, dqa_output.ticker, dqa_output, va_output)
    /\ UNCHANGED <<veto_rules, dqa_output, va_output, condition, value, veto,
                   counterarguments, stress_results, financial_data,
                   mos_intrinsic_value, mos_current_price, agents, executed,
                   output_files>>

NextDA == Analyze

SpecDA == InitDA /\ [][NextDA]_vars

\* C4: the output of analyze has final_recommendation PROCEED whenever its
\* veto is false and its counterarguments hold no A finding and at most two
\* B findings, and in every case final_recommendation is one of REJECT,
\* REDUCE, PROCEED.
C4_AnalyzeProceeds ==
    (pc = "done" /\ result.exc = "none") =>
        /\ result.ret.final_recommendation \in {"REJECT", "REDUCE", "PROCEED"}
        /\ (/\ ~result.ret.veto
             /\ Count(result.ret.counterarguments, "A") = 0
             /\ Count(result.ret.counterarguments, "B") <= 2)
                => result.ret.final_recommendation = "PROCEED"

\* An analysis under the tests' rules ended without veto, with two B findings
\* and a C finding, and was answered PROCEED.
C4_Witness ==
    /\ pc = "done"
    /\ veto_rules = test_veto_rules
    /\ result.exc = "none"
    /\ ~result.ret.veto
    /\ Count(result.ret.counterarguments, "A") = 0
    /\ Count(result.ret.counterarguments, "B") = 2
    /\ Count(result.ret.counterarguments, "C") >= 1
    /\ result.ret.final_recommendation = "PROCEED"

(***************************************************************************)
(* The moat score of one financial record.                                 *)
(***************************************************************************)
Histories(values) == UNION {[1..n -> values] : n \in 0..MaxHistory}

\* The records with each history absent or of 0..MaxHistory values: gross
\* margins of -50%, 25%, 60%, ROIC of -20%, 15%, 25%, growth of -10%, 5%, 25%.
MoatRecords ==
    {gm @@ rh @@ rg :
        gm \in {EmptyDict} \cup {[gross_margin |-> h] : h \in Histories({-50, 25, 60})},
        rh \in {EmptyDict} \cup {[roic_history |-> h] : h \in Histories({-20, 15, 25})},
        rg \in {EmptyDict} \cup {[revenue_growth |-> h] : h \in Histories({-10, 5, 25})}}

InitMoat ==
    /\ pc = "call"
    /\ financial_data \in MoatRecords
    /\ veto_rules = <<>>
    /\ dqa_output = clean_dqa_output
    /\ va_output = clean_va_output
    /\ condition = <<>>
    /\ value = [bound |-> FALSE]
    /\ veto = FALSE
    /\ counterarguments = <<>>
    /\ stress_results = EmptyDict
    /\ mos_intrinsic_value = 0
    /\ mos_current_price = 0
    /\ result = Unset
    /\ NoOrchestrator

ComputeMoatScore ==
    /\ pc = "call"
    /\ pc' = "done"
    /\ \E score \in _compute_moat_score(financial_data) : result' = Return(score)
    /\ UNCHANGED <<veto_rules, dqa_output, va_output, condition, value, veto,
                   counterarguments, stress_results, financial_data,
                   mos_intrinsic_value, mos_current_price, agents, executed,
                   output_files>>

NextMoat == ComputeMoatScore

SpecMoat == InitMoat /\ [][NextMoat]_vars

\* C10: the moat score is an integer in [0, 100] for every record, whatever
\* the length and the values (also negative) of its three histories.
C10_MoatScoreInRange ==
    pc = "done" => (result.ret >= Units(0) /\ result.ret <= Units(100))

(***************************************************************************)
(* Exact quotients.                                                        *)
(*                                                                         *)
(* The amounts and rates of a financial record are whole numbers of        *)
(* hundredths.  What the calculators derive from them by * and / is kept   *)
(* as a fraction num / den of hundredths in lowest terms with den > 0, and *)
(* compared by cross-multiplication.                                       *)
(***************************************************************************)
RECURSIVE GCD(_, _)
GCD(a, b) == IF b = 0 THEN a ELSE GCD(b, a % b)

Abs(n) == IF n < 0 THEN -n ELSE n

\* num / den in lowest terms, den # 0.
Ratio(num, den) ==
    LET g == GCD(Abs(num), Abs(den))
        s == IF den < 0 THEN -1 ELSE 1
    IN  [num |-> s * (num \div g), den |-> s * (den \div g)]

\* The int or float n hundredths.
Whole(n) == Ratio(n, 1)

\* a == b and a < b on Python numbers.
Same(a, b) == a.num * b.den = b.num * a.den

Less(a, b) == a.num * b.den < b.num * a.den

\* a - b, a * b and a / b (b # 0) on Python numbers.
Minus(a, b) == Ratio(a.num * b.den - b.num * a.den, a.den * b.den)

Times(a, b) == Ratio(a.num * b.num, 100 * a.den * b.den)

Over(a, b) == Ratio(100 * a.num * b.den, a.den * b.num)

\* The records with the key absent or bound to one of the values.
Field(key, values) == {EmptyDict} \cup {key :> v : v \in values}

(***************************************************************************)
(* DataQualityAgent._calculate_roic                                        *)
(***************************************************************************)
\* The calculation with a NOPAT that is floored at 0.
_calculate_roic_floored(data) ==
    LET operating_income    == get(data, "operating_income", 0)
        tax_rate            == get(data, "tax_rate", 25)
        nopat               == Times(Whole(Max(0, operating_income)), Whole(100 - tax_rate))
        total_assets        == get(data, "total_assets", 0)
        current_liabilities == get(data, "current_liabilities", 0)
        cash                == get(data, "cash", 0)
        invested_capital    == total_assets - current_liabilities - cash
    IN  IF invested_capital <= 0 THEN Whole(0)
        ELSE Over(nopat, Whole(invested_capital))

\* Lines 95-112: NOPAT = operating income * (1 - tax rate) over invested
\* capital = total assets - current liabilities - cash; 0.0 when the
\* invested capital is not positive.
_calculate_roic(data) ==
    LET operating_income    == get(data, "operating_income", 0)
        tax_rate            == get(data, "tax_rate", 25)
        nopat               == Times(Whole(operating_income), Whole(100 - tax_rate))
        total_assets        == get(data, "total_assets", 0)
        current_liabilities == get(data, "current_liabilities", 0)
        cash                == get(data, "cash", 0)
        invested_capital    == total_assets - current_liabilities - cash
    IN  IF invested_capital <= 0 THEN Whole(0)
        ELSE Over(nopat, Whole(invested_capital))

\* Records with each field absent or present: operating income of -4.00 or
\* 10.00, tax rate of 0, 25% or 30%, assets of 0 or 50.00, liabilities of
\* 10.00 or 60.00, cash of 5.00 or 40.00.
RoicRecords ==
    {oi @@ tr @@ ta @@ cl @@ ca :
        oi \in Field("operating_income", {-400, 1000}),
        tr \in Field("tax_rate", {0, 25, 30}),
        ta \in Field("total_assets", {0, 5000}),
        cl \in Field("current_liabilities", {1000, 6000}),
        ca \in Field("cash", {500, 4000})}

\* The state before a calculator is called on a record.
InitCalculator(records) ==
    /\ pc = "call"
    /\ financial_data \in records
    /\ veto_rules = <<>>
    /\ dqa_output = clean_dqa_output
    /\ va_output = clean_va_output
    /\ condition = <<>>
    /\ value = [bound |-> FALSE]
    /\ veto = FALSE
    /\ counterarguments = <<>>
    /\ stress_results = EmptyDict
    /\ mos_intrinsic_value = 0
    /\ mos_current_price = 0
    /\ result = Unset
    /\ NoOrchestrator

\* What a calculator leaves alone.
calculator_frame ==
    <<veto_rules, dqa_output, va_output, condition, value, veto, counterarguments,
      stress_results, financial_data, mos_intrinsic_value, mos_current_price,
      agents, executed, output_files>>

\* What the orchestrator leaves alone.
orchestrator_frame ==
    <<veto_rules, dqa_output, va_output, condition, value, veto, counterarguments,
      stress_results, financial_data, mos_intrinsic_value, mos_current_price>>

InitRoic == InitCalculator(RoicRecords)

CalculateRoic ==
    /\ pc = "call"
    /\ pc' = "done"
    /\ result' = Return(_calculate_roic(financial_data))
    /\ UNCHANGED calculator_frame

NextRoic == CalculateRoic

SpecRoic == InitRoic /\ [][NextRoic]_vars

\* C11: _calculate_roic returns 0 when invested capital (total assets -
\* current liabilities - cash) is <= 0 and operating income * (1 - tax rate)
\* / invested capital when it is > 0, with the tax rate defaulting to 0.25
\* and every other absent field to 0; a negative operating income is not
\* clamped.
C11_Roic ==
    pc = "done" =>
        LET oi == IF "operating_income" \in DOMAIN financial_data
                  THEN financial_data.operating_income ELSE 0
            tr == IF "tax_rate" \in DOMAIN financial_data
                  THEN financial_data.tax_rate ELSE 25
            ta == IF "total_assets" \in DOMAIN financial_data
                  THEN financial_data.total_assets ELSE 0
            cl == IF "current_liabilities" \in DOMAIN financial_data
                  THEN financial_data.current_liabilities ELSE 0
            ca == IF "cash" \in DOMAIN financial_data
                  THEN financial_data.cash ELSE 0
            ic == ta - cl - ca
        IN  /\ result.exc = "none"
            /\ ic <= 0 => result.ret.num = 0
            /\ ic > 0 => result.ret.num * ic = oi * (100 - tr) * result.ret.den

\* A negative operating income over a positive invested capital, with no
\* tax rate in the record, gave a negative ROIC.
C11_Witness ==
    /\ pc = "done"
    /\ "tax_rate" \notin DOMAIN financial_data
    /\ "operating_income" \in DOMAIN financial_data
    /\ financial_data.operating_income < 0
    /\ "total_assets" \in DOMAIN financial_data
    /\ "current_liabilities" \in DOMAIN financial_data
    /\ "cash" \notin DOMAIN financial_data
    /\ financial_data.total_assets - financial_data.current_liabilities > 0
    /\ result.ret.num < 0

(***************************************************************************)
(* DataQualityAgent._calculate_roe                                         *)
(***************************************************************************)
\* The calculation that averages with any previous equity the record holds.
_calculate_roe_any_prev(data) ==
    LET net_income     == get(data, "net_income", 0)
        current_equity == get(data, "shareholders_equity", 0)
        avg_equity     ==
            IF "shareholders_equity_prev" \in DOMAIN data
            THEN Ratio(current_equity + data.shareholders_equity_prev, 2)
            ELSE Whole(current_equity)
    IN  IF avg_equity.num <= 0 THEN Whole(0)
        ELSE Over(Whole(net_income), avg_equity)

\* Lines 123-138: net income over the mean of the current and the previous
\* equity when the record holds a previous equity > 0, over the current
\* equity otherwise; 0.0 when that denominator is not positive.
_calculate_roe(data) ==
    LET net_income     == get(data, "net_income", 0)
        current_equity == get(data, "shareholders_equity", 0)
        avg_equity     ==
            IF /\ "shareholders_equity_prev" \in DOMAIN data
               /\ data.shareholders_equity_prev > 0
            THEN Ratio(current_equity + data.shareholders_equity_prev, 2)
            ELSE Whole(current_equity)
    IN  IF avg_equity.num <= 0 THEN Whole(0)
        ELSE Over(Whole(net_income), avg_equity)

\* Records with each field absent or present: net income of -3.00, 0 or
\* 7.50, equity of -20.00, 0 or 30.00, previous equity of -40.00, 0, 10.00
\* or 28.00.
RoeRecords ==
    {ni @@ eq @@ pe :
        ni \in Field("net_income", {-300, 0, 750}),
        eq \in Field("shareholders_equity", {-2000, 0, 3000}),
        pe \in Field("shareholders_equity_prev", {-4000, 0, 1000, 2800})}

InitRoe == InitCalculator(RoeRecords)

CalculateRoe ==
    /\ pc = "call"
    /\ pc' = "done"
    /\ result' = Return(_calculate_roe(financial_data))
    /\ UNCHANGED calculator_frame

NextRoe == CalculateRoe

SpecRoe == InitRoe /\ [][NextRoe]_vars

\* C12: _calculate_roe divides net income by the mean of current and
\* previous equity when previous equity is present and > 0, by current
\* equity alone when it is absent or <= 0, and returns 0 whenever that
\* denominator is <= 0.
C12_Roe ==
    pc = "done" =>
        LET ni   == IF "net_income" \in DOMAIN financial_data
                    THEN financial_data.net_income ELSE 0
            eq   == IF "shareholders_equity" \in DOMAIN financial_data
                    THEN financial_data.shareholders_equity ELSE 0
            mean == /\ "shareholders_equity_prev" \in DOMAIN financial_data
                    /\ financial_data.shareholders_equity_prev > 0
            \* twice the denominator
            den2 == IF mean THEN eq + financial_data.shareholders_equity_prev
                    ELSE 2 * eq
        IN  /\ result.exc = "none"
            /\ den2 <= 0 => result.ret.num = 0
            /\ den2 > 0 => result.ret.num * den2 = 200 * ni * result.ret.den

\* A record with a previous equity that is not positive was divided by its
\* current equity alone, and gave a ROE that is not 0.
C12_Witness ==
    /\ pc = "done"
    /\ "shareholders_equity_prev" \in DOMAIN financial_data
    /\ financial_data.shareholders_equity_prev < 0
    /\ "shareholders_equity" \in DOMAIN financial_data
    /\ financial_data.shareholders_equity > 0
    /\ result.ret.num > 0

(***************************************************************************)
(* ValuationAgent._calculate_owner_earnings                                *)
(***************************************************************************)
\* The calculation that takes the whole capex as maintenance when the record
\* gives no growth ratio.
_calculate_owner_earnings_all_capex(data) ==
    LET cfo         == get(data, "cfo", 0)
        total_capex == get(data, "total_capex", 0)
        maintenance_capex ==
            IF total_capex > 0 /\ "growth_capex_ratio" \in DOMAIN data
            THEN Times(Whole(total_capex), Whole(100 - data.growth_capex_ratio))
            ELSE IF total_capex > 0
            THEN Whole(total_capex)
            ELSE Times(Whole(cfo), Whole(30))
    IN  Minus(Whole(cfo), maintenance_capex)

\* Lines 73-87: operating cash flow less maintenance capex, which is
\* total_capex * (1 - growth_capex_ratio) when total_capex > 0 and the record
\* gives the ratio, total_capex * 0.5 when total_capex > 0 without a ratio,
\* and cfo * 0.30 otherwise.
_calculate_owner_earnings(data) ==
    LET cfo         == get(data, "cfo", 0)
        total_capex == get(data, "total_capex", 0)
        maintenance_capex ==
            IF total_capex > 0 /\ "growth_capex_ratio" \in DOMAIN data
            THEN Times(Whole(total_capex), Whole(100 - data.growth_capex_ratio))
            ELSE IF total_capex > 0
            THEN Times(Whole(total_capex), Whole(50))
            ELSE Times(Whole(cfo), Whole(30))
    IN  Minus(Whole(cfo), maintenance_capex)

\* Records with each field absent or present: operating cash flow of
\* -20.00, 0 or 100.00, capex of -10.00, 0 or 40.00, growth ratio of 0, 50%,
\* 75% or 100%.
OwnerEarningsRecords ==
    {cf @@ tc @@ gr :
        cf \in Field("cfo", {-2000, 0, 10000}),
        tc \in Field("total_capex", {-1000, 0, 4000}),
        gr \in Field("growth_capex_ratio", {0, 50, 75, 100})}

InitOwnerEarnings == InitCalculator(OwnerEarningsRecords)

CalculateOwnerEarnings ==
    /\ pc = "call"
    /\ pc' = "done"
    /\ result' = Return(_calculate_owner_earnings(financial_data))
    /\ UNCHANGED calculator_frame

NextOwnerEarnings == CalculateOwnerEarnings

SpecOwnerEarnings == InitOwnerEarnings /\ [][NextOwnerEarnings]_vars

C14_NoCapexNeverInflates ==
    (pc = "done" /\ "total_capex" \notin DOMAIN financial_data) =>
        LET cfo == IF "cfo" \in DOMAIN financial_data THEN financial_data.cfo ELSE 0
        IN  ~Less(Whole(cfo), result.ret)

(***************************************************************************)
(* ValuationAgent._calculate_mos                                           *)
(***************************************************************************)
\* The calculation that answers 0.0 for an intrinsic value that is not
\* positive.
_calculate_mos_zero(intrinsic_value, price) ==
    IF intrinsic_value <= 0 THEN Whole(0)
    ELSE Over(Whole(intrinsic_value - price), Whole(intrinsic_value))

\* The calculation that never answers less than -1.0.
_calculate_mos_floored(intrinsic_value, price) ==
    IF intrinsic_value <= 0 \/ price >= 2 * intrinsic_value THEN Whole(-100)
    ELSE Over(Whole(intrinsic_value - price), Whole(intrinsic_value))

\* Lines 116-118: (intrinsic value - current price) / intrinsic value, and
\* -1.0 for an intrinsic value that is not positive.
_calculate_mos(intrinsic_value, price) ==
    IF intrinsic_value <= 0 THEN Whole(-100)
    ELSE Over(Whole(intrinsic_value - price), Whole(intrinsic_value))

\* Intrinsic values from -100.00 to 150.00 and prices from 0 to 300.00.
IntrinsicValues == {-10000, -5000, 0, 2500, 5000, 7500, 10000, 15000}

CurrentPrices == {0, 2500, 5000, 7500, 10000, 15000, 20000, 30000}

InitMos ==
    /\ pc = "call"
    /\ mos_intrinsic_value \in IntrinsicValues
    /\ mos_current_price \in CurrentPrices
    /\ financial_data = EmptyDict
    /\ veto_rules = <<>>
    /\ dqa_output = clean_dqa_output
    /\ va_output = clean_va_output
    /\ condition = <<>>
    /\ value = [bound |-> FALSE]
    /\ veto = FALSE
    /\ counterarguments = <<>>
    /\ stress_results = EmptyDict
    /\ result = Unset
    /\ NoOrchestrator

CalculateMos ==
    /\ pc = "call"
    /\ pc' = "done"
    /\ result' = Return(_calculate_mos(mos_intrinsic_value, mos_current_price))
    /\ UNCHANGED calculator_frame

NextMos == CalculateMos

SpecMos == InitMos /\ [][NextMos]_vars

\* C15: _calculate_mos returns exactly -1 for every intrinsic value <= 0 and
\* any price, and (intrinsic - price) / intrinsic for every intrinsic value
\* > 0: 0.50 for (100, 50), 0 for (100, 100) and -1 for (50, 100).
C15_Mos ==
    pc = "done" =>
        /\ result.exc = "none"
        /\ mos_intrinsic_value <= 0 => result = Return(Whole(-100))
        /\ mos_intrinsic_value > 0 =>
               result.ret.num * mos_intrinsic_value
                   = 100 * (mos_intrinsic_value - mos_current_price) * result.ret.den
        /\ (mos_intrinsic_value = 10000 /\ mos_current_price = 5000)
               => result = Return(Whole(50))
        /\ (mos_intrinsic_value = 10000 /\ mos_current_price = 10000)
               => result = Return(Whole(0))
        /\ (mos_intrinsic_value = 5000 /\ mos_current_price = 10000)
               => result = Return(Whole(-100))

\* A price of 50.00 against an intrinsic value of 100.00 gave a margin of
\* 0.50.
C15_Witness ==
    /\ pc = "done"
    /\ mos_intrinsic_value = 10000
    /\ mos_current_price = 5000
    /\ result = Return(Whole(50))

\* C16 as stated: _calculate_mos returns -1 only when the intrinsic value is
\* <= 0; no intrinsic value > 0 produces -1.
C16_SentinelOnlyUndefined ==
    (pc = "done" /\ result = Return(Whole(-100))) => mos_intrinsic_value <= 0

\* C16 as the code has it: _calculate_mos returns -1 exactly when the
\* intrinsic value is <= 0 or the price is twice a positive intrinsic value.
C16_SentinelOrTwiceThePrice ==
    pc = "done" =>
        (result = Return(Whole(-100))
            <=> \/ mos_intrinsic_value <= 0
                \/ mos_current_price = 2 * mos_intrinsic_value)

\* A price of 150.00 against an intrinsic value of 75.00 gave -1.
C16_Witness ==
    /\ pc = "done"
    /\ mos_intrinsic_value = 7500
    /\ mos_current_price = 15000
    /\ result = Return(Whole(-100))

(***************************************************************************)
(* DataQualityAgent._check_data_integrity                                  *)
(*                                                                         *)
(* A warning is a mapping of severity, category and message.  The message  *)
(* of a missing_data warning is the joined list of the missing fields,     *)
(* kept as that list; the other messages are formatted from the metric,    *)
(* and the model keeps their constant start.                               *)
(***************************************************************************)
\* data.get(key) is None.
is_None(data, key) == key \notin DOMAIN data

IntegrityWarning(severity, category, message) ==
    [severity |-> severity, category |-> category, message |-> message]

\* Lines 255-258.
critical_fields ==
    <<"operating_income", "net_income", "total_assets", "shareholders_equity", "cfo">>

\* The severity of the missing_data warning with B up to one missing field.
missing_severity_one(missing_fields) ==
    IF Len(missing_fields) <= 1 THEN "B" ELSE "C"

\* Line 266.
missing_severity(missing_fields) ==
    IF Len(missing_fields) <= 2 THEN "B" ELSE "C"

\* Lines 225-231: the Beneish M-score above -2.2.
beneish_check(data) ==
    IF ~is_None(data, "beneish_m_score") /\ data.beneish_m_score > -220
    THEN <<IntegrityWarning("A", "earnings_quality", "High earnings manipulation risk")>>
    ELSE <<>>

\* Lines 234-251: the cash conversion of a positive net income.
\* The cash check with its first level only.
cash_check_poor_only(data) ==
    IF /\ ~is_None(data, "cfo")
       /\ ~is_None(data, "net_income")
       /\ data.net_income > 0
    THEN LET cfo_ni_ratio == Over(Whole(data.cfo), Whole(data.net_income))
         IN  IF Less(cfo_ni_ratio, Whole(50))
             THEN <<IntegrityWarning("A", "cash_quality", "Poor cash conversion")>>
             ELSE <<>>
    ELSE <<>>

cash_check(data) ==
    IF /\ ~is_None(data, "cfo")
       /\ ~is_None(data, "net_income")
       /\ data.net_income > 0
    THEN LET cfo_ni_ratio == Over(Whole(data.cfo), Whole(data.net_income))
         IN  IF Less(cfo_ni_ratio, Whole(50))
             THEN <<IntegrityWarning("A", "cash_quality", "Poor cash conversion")>>
             ELSE IF Less(cfo_ni_ratio, Whole(80))
             THEN <<IntegrityWarning("B", "cash_quality", "Weak cash conversion")>>
             ELSE <<>>
    ELSE <<>>

\* Lines 254-269: the critical fields the record does not give.
missing_check(data) ==
    LET missing_fields == SelectSeq(critical_fields, LAMBDA field : is_None(data, field))
    IN  IF missing_fields # <<>>
        THEN <<IntegrityWarning(missing_severity(missing_fields), "missing_data",
                                missing_fields)>>
        ELSE <<>>

\* Lines 272-278: a negative equity.
equity_check(data) ==
    IF ~is_None(data, "shareholders_equity") /\ data.shareholders_equity < 0
    THEN <<IntegrityWarning("A", "balance_sheet", "Negative shareholders' equity")>>
    ELSE <<>>

\* The checks with the later ones skipped once a warning was raised.
_check_data_integrity_first(data) ==
    IF beneish_check(data) # <<>> THEN beneish_check(data)
    ELSE IF cash_check(data) # <<>> THEN cash_check(data)
    ELSE IF missing_check(data) # <<>> THEN missing_check(data)
    ELSE equity_check(data)

\* Lines 222-280: the warnings of the four checks, in this order.
_check_data_integrity(data) ==
    beneish_check(data) \o cash_check(data) \o missing_check(data) \o equity_check(data)

\* Records with each field absent or present: Beneish scores around -2.2,
\* cash flows that are -0.2, 0.3, 0.5, 0.6 and 0.8 of a net income of 10.00,
\* net incomes of -5.00, 0 and 10.00, equity of -1.00, 0 and 30.00.
IntegrityRecords ==
    {bm @@ cf @@ ni @@ oi @@ ta @@ eq :
        bm \in Field("beneish_m_score", {-250, -220, -100}),
        cf \in Field("cfo", {-200, 300, 500, 600, 800}),
        ni \in Field("net_income", {-500, 0, 1000}),
        oi \in Field("operating_income", {1000}),
        ta \in Field("total_assets", {5000}),
        eq \in Field("shareholders_equity", {-100, 0, 3000})}

InitIntegrity == InitCalculator(IntegrityRecords)

CheckDataIntegrity ==
    /\ pc = "call"
    /\ pc' = "done"
    /\ result' = Return(_check_data_integrity(financial_data))
    /\ UNCHANGED calculator_frame

NextIntegrity == CheckDataIntegrity

SpecIntegrity == InitIntegrity /\ [][NextIntegrity]_vars

\* The warnings of one category in a list.
OfCategory(warnings, category) ==
    SelectSeq(warnings, LAMBDA w : w.category = category)

\* C18: _check_data_integrity returns exactly the warnings whose own trigger
\* holds: earnings_quality/A iff the Beneish score is present and > -2.2;
\* cash_quality iff CFO and net income are present, net income > 0 and
\* CFO/NI < 0.8, with severity A when < 0.5 and B otherwise; missing_data
\* iff one of the five critical fields is absent; balance_sheet/A iff the
\* equity is present and < 0; nothing else, and nothing for a record that
\* triggers none.
C18_ExactlyTheTriggered ==
    pc = "done" =>
        LET d == financial_data
            has(key) == key \in DOMAIN d
            beneish == has("beneish_m_score") /\ d.beneish_m_score > -220
            cash == /\ has("cfo") /\ has("net_income") /\ d.net_income > 0
                    /\ 100 * d.cfo < 80 * d.net_income
            missing == \E i \in DOMAIN critical_fields : ~has(critical_fields[i])
            equity == has("shareholders_equity") /\ d.shareholders_equity < 0
            count(c) == Len(OfCategory(result.ret, c))
            severity(c) == OfCategory(result.ret, c)[1].severity
            triggered(b) == IF b THEN 1 ELSE 0
        IN  /\ result.exc = "none"
            /\ count("earnings_quality") = triggered(beneish)
            /\ beneish => severity("earnings_quality") = "A"
            /\ count("cash_quality") = triggered(cash)
            /\ cash => severity("cash_quality")
                           = IF 100 * d.cfo < 50 * d.net_income THEN "A" ELSE "B"
            /\ count("missing_data") = triggered(missing)
            /\ count("balance_sheet") = triggered(equity)
            /\ equity => severity("balance_sheet") = "A"
            /\ Len(result.ret) = triggered(beneish) + triggered(cash)
                                     + triggered(missing) + triggered(equity)

\* One record raised the four warnings, the cash one with severity B.
C18_Witness ==
    /\ pc = "done"
    /\ Len(result.ret) = 4
    /\ OfCategory(result.ret, "cash_quality")[1].severity = "B"

\* C19: the missing_data warning has severity B when one or two of the five
\* critical fields are missing and C when three or more are; there is at
\* most one such warning and it names every missing field.
C19_MissingData ==
    pc = "done" =>
        LET missing == {i \in DOMAIN critical_fields :
                            critical_fields[i] \notin DOMAIN financial_data}
            found   == OfCategory(result.ret, "missing_data")
        IN  /\ Len(found) <= 1
            /\ missing # {} =>
                   /\ Len(found) = 1
                   /\ found[1].severity = IF Cardinality(missing) <= 2 THEN "B" ELSE "C"
                   /\ {found[1].message[k] : k \in DOMAIN found[1].message}
                          = {critical_fields[i] : i \in missing}
                   /\ Len(found[1].message) = Cardinality(missing)

\* Exactly two fields were missing and the warning has severity B.
C19_Witness ==
    /\ pc = "done"
    /\ Cardinality({i \in DOMAIN critical_fields :
                        critical_fields[i] \notin DOMAIN financial_data}) = 2
    /\ Len(OfCategory(result.ret, "missing_data")) = 1
    /\ OfCategory(result.ret, "missing_data")[1].severity = "B"

(***************************************************************************)
(* DataQualityAgent.analyze                                                *)
(*                                                                         *)
(* The output holds roic, roe and cfo_ni_ratio as exact quotients, the     *)
(* Beneish score in hundredths, the moat score as Units, and the margin    *)
(* stability, a standard deviation, as the variance it is the root of.     *)
(***************************************************************************)
\* statistics.stdev(xs) of two or more hundredths: the root of
\* (n * SumSq - Sum^2) / (n * (n - 1)) squared hundredths.
stdev(xs) ==
    LET n == Len(xs)
    IN  [sqrt_of |-> Ratio(n * SumSq(xs) - Sum(xs) * Sum(xs), n * (n - 1))]

\* Lines 55-59.
margin_stability_of(data) ==
    LET gross_margins == get(data, "gross_margin", <<>>)
    IN  IF Len(gross_margins) >= 2 THEN stdev(gross_margins)
        ELSE [sqrt_of |-> Whole(0)]

\* The ratio with every net income but 0 divided by.
cfo_ni_ratio_of_nonzero(data) ==
    LET cfo        == get(data, "cfo", 0)
        net_income == get(data, "net_income", 100)
    IN  IF net_income # 0 THEN Over(Whole(cfo), Whole(net_income)) ELSE Whole(0)

\* The ratio 1.0 given to a net income that is not positive.
cfo_ni_ratio_of_one(data) ==
    LET cfo        == get(data, "cfo", 0)
        net_income == get(data, "net_income", 100)
    IN  IF net_income > 0 THEN Over(Whole(cfo), Whole(net_income)) ELSE Whole(100)

\* Lines 68-70: cfo / net_income for a positive net income, else 0.0; an
\* absent cfo is 0 and an absent net income is 1.
cfo_ni_ratio_of(data) ==
    LET cfo        == get(data, "cfo", 0)
        net_income == get(data, "net_income", 100)
    IN  IF net_income > 0 THEN Over(Whole(cfo), Whole(net_income)) ELSE Whole(0)

\* Lines 51-84, with moat_score one of the scores of _compute_moat_score.
dqa_analyze(ticker, data, moat_score) ==
    DataQualityOutput(ticker,
                      _calculate_roic(data),
                      _calculate_roe(data),
                      margin_stability_of(data),
                      moat_score,
                      _check_data_integrity(data),
                      get(data, "beneish_m_score", -300),
                      cfo_ni_ratio_of(data))

\* Records with each field absent or present, around the tests' sample:
\* cash flows of -2.00 and 6.00, net incomes of -5.00, 0 and 10.00, equity of
\* -1.00 and 30.00, gross margins of no, one and two years.
DqaRecords ==
    {cf @@ ni @@ oi @@ ta @@ eq @@ pe @@ bm @@ gm @@ rh :
        cf \in Field("cfo", {-200, 600}),
        ni \in Field("net_income", {-500, 0, 1000}),
        oi \in Field("operating_income", {1000}),
        ta \in Field("total_assets", {5000}),
        eq \in Field("shareholders_equity", {-100, 3000}),
        pe \in Field("shareholders_equity_prev", {2800}),
        bm \in Field("beneish_m_score", {-100}),
        gm \in Field("gross_margin", {<<>>, <<40>>, <<25, 60>>}),
        rh \in Field("roic_history", {<<15>>})}

InitDqa == InitCalculator(DqaRecords)

DqaAnalyze ==
    /\ pc = "call"
    /\ pc' = "done"
    /\ \E moat_score \in _compute_moat_score(financial_data) :
           result' = Return(dqa_analyze("TEST", financial_data, moat_score))
    /\ UNCHANGED calculator_frame

NextDqa == DqaAnalyze

SpecDqa == InitDqa /\ [][NextDqa]_vars

\* C17: DataQualityAgent.analyze yields cfo_ni_ratio = 0 for every record
\* whose net income is <= 0, whatever the operating cash flow; a negative
\* ratio never comes from a net income that is not positive.
C17_LossHasRatioZero ==
    pc = "done" =>
        LET loss == /\ "net_income" \in DOMAIN financial_data
                    /\ financial_data.net_income <= 0
        IN  /\ result.exc = "none"
            /\ loss => result.ret.cfo_ni_ratio = Whole(0)
            /\ result.ret.cfo_ni_ratio.num < 0 => ~loss

\* A negative cash flow over a negative net income gave the ratio 0.
C17_Witness ==
    /\ pc = "done"
    /\ "net_income" \in DOMAIN financial_data
    /\ financial_data.net_income < 0
    /\ "cfo" \in DOMAIN financial_data
    /\ financial_data.cfo < 0
    /\ result.ret.cfo_ni_ratio = Whole(0)

(***************************************************************************)
(* The counter-arguments of one pair of bundles.                           *)
(***************************************************************************)
\* Data-quality outputs with ROIC, ROE and moat score below, at and above
\* their two cut-offs, and outputs with the margin stability and the cash
\* ratio around theirs and every list of warnings; valuation outputs with
\* the margin of safety around its three cut-offs and at the sentinel -1.
GenDqaOutputs ==
    {[clean_dqa_output EXCEPT !.roic = r, !.roe = e, !.moat_score = Units(m)] :
        r \in {7, 8, 11, 12}, e \in {9, 10, 14, 15}, m \in {39, 40, 59, 60}}
    \cup
    {[clean_dqa_output EXCEPT !.roic = r, !.margin_stability = s,
                              !.cfo_ni_ratio = c, !.data_warnings = w] :
        r \in {7, 18}, s \in {10, 11, 14, 15, 16}, c \in {0, 49, 50, 79, 80},
        w \in WarningLists}

GenVaOutputs ==
    {[clean_va_output EXCEPT !.margin_of_safety = m] :
        m \in {-100, 9, 10, 19, 20, 29, 30}}

InitGen ==
    /\ pc = "call"
    /\ dqa_output \in GenDqaOutputs
    /\ va_output \in GenVaOutputs
    /\ financial_data = EmptyDict
    /\ veto_rules = <<>>
    /\ condition = <<>>
    /\ value = [bound |-> FALSE]
    /\ veto = FALSE
    /\ counterarguments = <<>>
    /\ stress_results = EmptyDict
    /\ mos_intrinsic_value = 0
    /\ mos_current_price = 0
    /\ result = Unset
    /\ NoOrchestrator

GenerateCounterarguments ==
    /\ pc = "call"
    /\ pc' = "done"
    /\ result' = Return(_generate_counterarguments(dqa_output.ticker, dqa_output, va_output))
    /\ UNCHANGED calculator_frame

NextGen == GenerateCounterarguments

SpecGen == InitGen /\ [][NextGen]_vars

\* The findings of a list whose claim text starts with the given words.
Claiming(args, claim) == SelectSeq(args, LAMBDA a : a.claim = claim)

\* C20: _generate_counterarguments emits a finding for ROIC iff ROIC < 0.12,
\* for ROE iff ROE < 0.15 and for the moat score iff it is < 60; the finding
\* has severity A iff the metric is below its critical cut-off (0.08, 0.10,
\* 40) and B otherwise: a value at the critical cut-off is B and a value at
\* the watch threshold gives no finding.
C20_ProfitabilityAndMoat ==
    pc = "done" =>
        LET roic == Claiming(result.ret, "Below-average ROIC")
            roe  == Claiming(result.ret, "Subpar ROE")
            moat == SelectSeq(result.ret, LAMBDA a : a.category = "competitive_moat")
            one(found, emitted, critical) ==
                /\ Len(found) = IF emitted THEN 1 ELSE 0
                /\ emitted => found[1].severity = IF critical THEN "A" ELSE "B"
        IN  /\ one(roic, dqa_output.roic < 12, dqa_output.roic < 8)
            /\ one(roe, dqa_output.roe < 15, dqa_output.roe < 10)
            /\ one(moat, dqa_output.moat_score < Units(60),
                   dqa_output.moat_score < Units(40))
            /\ \A i \in DOMAIN roic : roic[i].category = "profitability"
            /\ \A i \in DOMAIN roe : roe[i].category = "profitability"

\* A ROIC of exactly 0.08 and a moat score of exactly 40 each gave a B
\* finding, and a ROE of exactly 0.15 gave none.
C20_Witness ==
    /\ pc = "done"
    /\ dqa_output.roic = 8
    /\ dqa_output.roe = 15
    /\ dqa_output.moat_score = Units(40)
    /\ Claiming(result.ret, "Below-average ROIC")[1].severity = "B"
    /\ Claiming(result.ret, "Subpar ROE") = <<>>
    /\ \E i \in DOMAIN result.ret :
           result.ret[i].category = "competitive_moat" /\ result.ret[i].severity = "B"

C22_Stability ==
    pc = "done" =>
        LET stability == dqa_output.margin_stability
            found     == OfCategory(result.ret, "business_stability")
        IN  /\ Len(found) = IF stability > 10 THEN 1 ELSE 0
            /\ stability > 10 =>
                   found[1].severity = IF stability > 15 THEN "A" ELSE "B"

\* C23: _generate_counterarguments emits a cash_quality finding, of severity
\* B, iff 0.5 <= cfo_ni_ratio < 0.8; a ratio below 0.5, the 0 of a net
\* income that is not positive included, gives no cash_quality finding.
C23_CashQuality ==
    pc = "done" =>
        LET ratio == dqa_output.cfo_ni_ratio
            found == OfCategory(result.ret, "cash_quality")
        IN  /\ Len(found) = IF ratio >= 50 /\ ratio < 80 THEN 1 ELSE 0
            /\ \A i \in DOMAIN found : found[i].severity = "B"

\* A ratio of exactly 0.5 gave a B finding.
C23_Witness ==
    /\ pc = "done"
    /\ dqa_output.cfo_ni_ratio = 50
    /\ Len(OfCategory(result.ret, "cash_quality")) = 1
    /\ OfCategory(result.ret, "cash_quality")[1].severity = "B"

\* C24: every integrity warning of severity A or B gives exactly one
\* data_quality finding of the same severity, a warning of severity C gives
\* none, and there are as many data_quality findings as A/B warnings.
C24_WarningsResurfaced ==
    pc = "done" =>
        LET warnings == dqa_output.data_warnings
            kept     == SelectSeq(warnings, LAMBDA w : w.severity # "C")
            found    == OfCategory(result.ret, "data_quality")
        IN  /\ Len(found) = Len(kept)
            /\ \A i \in DOMAIN found : found[i].severity = kept[i].severity
            /\ \A i \in DOMAIN found : found[i].severity \in {"A", "B"}

\* A C warning followed by an A warning gave one finding, of severity A.
C24_Witness ==
    /\ pc = "done"
    /\ Len(dqa_output.data_warnings) = 2
    /\ dqa_output.data_warnings[1].severity = "C"
    /\ dqa_output.data_warnings[2].severity = "A"
    /\ Len(OfCategory(result.ret, "data_quality")) = 1
    /\ OfCategory(result.ret, "data_quality")[1].severity = "A"

(***************************************************************************)
(* Repeated analyses with one agent.  Neither analyze stores into its      *)
(* arguments or into the agent: DataQualityAgent.analyze reads the record  *)
(* with get() and builds new lists, DevilsAdvocateAgent.analyze iterates   *)
(* self.veto_rules and dqa_output.data_warnings and appends to a list of   *)
(* its own.  The operators below are what a call leaves in each of them.   *)
(***************************************************************************)

\* A check that pops each rule off the configured list as it is evaluated.
veto_rules_drained(rules) == <<>>

\* Lines 104-116 of devils_advocate.py: `for rule in self.veto_rules` reads
\* the list; lines 45-47: it is assigned in __init__ only.
veto_rules_after_analyze(rules) == rules

\* Lines 172-284 of devils_advocate.py: the attributes of dqa_output are
\* read, and `for warning in dqa_output.data_warnings` reads the list.
dqa_output_after_analyze(dqa) == dqa

\* Lines 230-248 of devils_advocate.py: va_output.margin_of_safety is read.
va_output_after_analyze(va) == va

\* Lines 53-73 of data_quality.py: every access to financial_data is a get().
financial_data_after_analyze(data) == data

\* Records whose moat score does not hang on the rounding of a half.
FrameRecords == {data \in DqaRecords : Cardinality(_compute_moat_score(data)) = 1}

InitFrame ==
    /\ pc \in {"call_dqa", "call_da"}
    /\ IF pc = "call_dqa"
       THEN /\ financial_data \in FrameRecords
            /\ veto_rules = <<>>
            /\ dqa_output = clean_dqa_output
            /\ va_output = clean_va_output
       ELSE /\ financial_data = EmptyDict
            /\ veto_rules \in DaConfigs
            /\ dqa_output \in DaDqaOutputs
            /\ va_output \in DaVaOutputs
    /\ condition = <<>>
    /\ value = [bound |-> FALSE]
    /\ veto = FALSE
    /\ counterarguments = <<>>
    /\ stress_results = EmptyDict
    /\ mos_intrinsic_value = 0
    /\ mos_current_price = 0
    /\ result = Unset
    /\ NoOrchestrator

\* What no analysis touches.
frame_of_analyses ==
    <<condition, value, veto, counterarguments, stress_results,
      mos_intrinsic_value, mos_current_price, agents, executed, output_files>>

\* DataQualityAgent.analyze, the first or the second time on one record.
AnalyzeRecord ==
    /\ pc \in {"call_dqa", "again_dqa"}
    /\ pc' = IF pc = "call_dqa" THEN "done_dqa" ELSE "redone_dqa"
    /\ \E moat_score \in _compute_moat_score(financial_data) :
           result' = Return(dqa_analyze("TEST", financial_data, moat_score))
    /\ financial_data' = financial_data_after_analyze(financial_data)
    /\ UNCHANGED <<veto_rules, dqa_output, va_output>>
    /\ UNCHANGED frame_of_analyses

\* DevilsAdvocateAgent.analyze, the first or the second time on one input.
AnalyzeOutputs ==
    /\ pc \in {"call_da", "again_da"}
    /\ pc' = IF pc = "call_da" THEN "done_da" ELSE "redone_da"
    /\ result' = analyze(veto_rules, dqa_output.ticker, dqa_output, va_output)
    /\ veto_rules' = veto_rules_after_analyze(veto_rules)
    /\ dqa_output' = dqa_output_after_analyze(dqa_output)
    /\ va_output' = va_output_after_analyze(va_output)
    /\ UNCHANGED financial_data
    /\ UNCHANGED frame_of_analyses

\* The caller gives the same input to the same agent once more; `result`
\* keeps what the first analysis returned.
AnalyzeAgain ==
    /\ pc \in {"done_dqa", "done_da"}
    /\ pc' = IF pc = "done_dqa" THEN "again_dqa" ELSE "again_da"
    /\ UNCHANGED <<veto_rules, dqa_output, va_output, financial_data, result>>
    /\ UNCHANGED frame_of_analyses

\* The caller goes on to another valuation with the same agent.
AnalyzeAnother ==
    /\ pc = "redone_da"
    /\ pc' = "call_da"
    /\ va_output' \in DaVaOutputs \ {va_output}
    /\ result' = Unset
    /\ UNCHANGED <<veto_rules, dqa_output, financial_data>>
    /\ UNCHANGED frame_of_analyses

NextFrame == AnalyzeRecord \/ AnalyzeOutputs \/ AnalyzeAgain \/ AnalyzeAnother

SpecFrame == InitFrame /\ [][NextFrame]_vars

Calls == <<"dqa.analyze", "va.analyze", "da.analyze", "pa.analyze",
           "maa.create_memo", "maa.to_markdown">>

Outcomes == {"returns", "NotImplementedError", "Exception"}

\* The agents of this repository: data_quality.py:40-84 and
\* devils_advocate.py:49-89 return, valuation.py:61, portfolio.py:63 and
\* memo_audit.py:84 raise NotImplementedError; to_markdown is never reached.
repository_agents ==
    [call \in {Calls[i] : i \in DOMAIN Calls} |->
        IF call \in {"va.analyze", "pa.analyze", "maa.create_memo"}
        THEN "NotImplementedError"
        ELSE "returns"]

\* Every behaviour of the six calls, the repository's among them.
Agents == [{Calls[i] : i \in DOMAIN Calls} -> Outcomes]

\* Line 153: Path("output") / f"{ticker}_memo.md", for the ticker TEST.
output_path == "output/TEST_memo.md"

\* Lines 104, 115, 129, 142, 160: the mapping returned when a stage is not
\* implemented.
not_implemented(stage) ==
    [error |-> CASE stage = "DQA" -> "DQA not implemented"
                 [] stage = "VA"  -> "VA not implemented"
                 [] stage = "DA"  -> "DA not implemented"
                 [] stage = "PA"  -> "PA not implemented"
                 [] stage = "MAA" -> "MAA not implemented"]

\* Lines 166-173: the mapping returned at the end.
full_result ==
    [ticker |-> "TEST", dqa |-> "dqa_output", va |-> "va_output",
     da |-> "da_output", pa |-> "pa_output", memo |-> "memo"]

\* An except clause that reports the stage and lets the run go on.
after_call_goes_on(outcome, next) == next

\* Where analyze_stock is after a call: at the next step when the call
\* returned; at its end when the except clause returned the error mapping
\* or when another exception left the function.
after_call(outcome, next) == IF outcome = "returns" THEN next ELSE "done"

\* What analyze_stock has returned or raised after a call.
result_after_call(stage, outcome) ==
    IF outcome = "returns" THEN Unset
    ELSE IF outcome = "NotImplementedError" THEN Return(not_implemented(stage))
    ELSE Raise("Exception")

InitOrchestrator ==
    /\ pc = "call"
    /\ agents \in Agents
    /\ executed = <<>>
    /\ output_files = {}
    /\ financial_data = EmptyDict
    /\ veto_rules = <<>>
    /\ dqa_output = clean_dqa_output
    /\ va_output = clean_va_output
    /\ condition = <<>>
    /\ value = [bound |-> FALSE]
    /\ veto = FALSE
    /\ counterarguments = <<>>
    /\ stress_results = EmptyDict
    /\ mos_intrinsic_value = 0
    /\ mos_current_price = 0
    /\ result = Unset

\* One of the first four steps: the try block around one agent's analyze.
Step(at, stage, call, next) ==
    /\ pc = at
    /\ executed' = Append(executed, stage)
    /\ pc' = after_call(agents[call], next)
    /\ result' = result_after_call(stage, agents[call])
    /\ UNCHANGED <<agents, output_files>>
    /\ UNCHANGED orchestrator_frame

\* Lines 95-104.
Step1_DataQuality == Step("call", "DQA", "dqa.analyze", "step 2")

\* Lines 106-115.
Step2_Valuation == Step("step 2", "VA", "va.analyze", "step 3")

\* Lines 117-129.
Step3_DevilsAdvocate == Step("step 3", "DA", "da.analyze", "step 4")

\* Lines 131-142.
Step4_Portfolio == Step("step 4", "PA", "pa.analyze", "step 5")

\* Lines 144-173: create_memo; then the output directory is made, the memo
\* is rendered by to_markdown and written to the file, and the full result
\* is returned.  A NotImplementedError of either call is caught by the same
\* except clause.
Step5_Memo ==
    /\ pc = "step 5"
    /\ executed' = Append(executed, "MAA")
    /\ IF agents["maa.create_memo"] # "returns"
       THEN /\ pc' = after_call(agents["maa.create_memo"], "done")
            /\ result' = result_after_call("MAA", agents["maa.create_memo"])
            /\ output_files' = output_files
       ELSE IF agents["maa.to_markdown"] # "returns"
       THEN /\ pc' = after_call(agents["maa.to_markdown"], "done")
            /\ result' = result_after_call("MAA", agents["maa.to_markdown"])
            /\ output_files' = output_files \cup {"output"}
       ELSE /\ pc' = "done"
            /\ result' = Return(full_result)
            /\ output_files' = output_files \cup {"output", output_path}
    /\ UNCHANGED agents
    /\ UNCHANGED orchestrator_frame

NextOrchestrator ==
    \/ Step1_DataQuality
    \/ Step2_Valuation
    \/ Step3_DevilsAdvocate
    \/ Step4_Portfolio
    \/ Step5_Memo

SpecOrchestrator == InitOrchestrator /\ [][NextOrchestrator]_vars

\* C27: analyze_stock runs the stages in the order DQA, VA, DA, PA, MAA,
\* each stage starting only after every earlier stage returned normally; the
\* first stage that raises NotImplementedError ends the run with the mapping
\* {"error": "<stage> not implemented"}, no later stage is executed and no
\* memo file is written; the full result mapping is returned only when all
\* five stages completed (and then it is returned).
C27_StagesInOrder ==
    LET order  == <<"DQA", "VA", "DA", "PA", "MAA">>
        errors == <<"DQA not implemented", "VA not implemented",
                    "DA not implemented", "PA not implemented",
                    "MAA not implemented">>
        outcome(i) ==
            IF i < 5 \/ agents[Calls[5]] # "returns"
            THEN agents[Calls[i]]
            ELSE agents[Calls[6]]
        reached(i) == \A j \in 1..(i - 1) : outcome(j) = "returns"
        n == Len(executed)
        full == pc = "done" /\ result.exc = "none" /\ "ticker" \in DOMAIN result.ret
    IN  /\ n <= 5
        /\ \A i \in 1..n : executed[i] = order[i] /\ reached(i)
        /\ \A i \in 1..5 :
               (n >= i /\ outcome(i) = "NotImplementedError") =>
                   /\ pc = "done"
                   /\ result = [exc |-> "none", ret |-> [error |-> errors[i]]]
                   /\ n = i
                   /\ output_path \notin output_files
        /\ full => (n = 5 /\ reached(6))
        /\ (n = 5 /\ reached(6)) =>
               (full /\ DOMAIN result.ret = {"ticker", "dqa", "va", "da", "pa", "memo"})

\* The run with the agents of the repository has ended at the valuation.
C27_Witness ==
    /\ pc = "done"
    /\ agents = repository_agents
    /\ executed = <<"DQA", "VA">>
    /\ result = Return([error |-> "VA not implemented"])
    /\ output_files = {}

\* C28: the recommendation is monotone in the findings.  With the order
\* REJECT > REDUCE > PROCEED, adding any finding at any place of the list
\* given to _make_recommendation, the veto and the stress results being the
\* same, never gives a less severe recommendation, and adding or removing a
\* finding of severity C never changes it.
C28_Monotone ==
    pc = "done" =>
        LET rank(r) == CASE r = "PROCEED" -> 0 [] r = "REDUCE" -> 1 [] r = "REJECT" -> 2
            n == Len(counterarguments)
            with(k, extra) ==
                SubSeq(counterarguments, 1, k) \o <<extra>>
                    \o SubSeq(counterarguments, k + 1, n)
            without(k) ==
                SubSeq(counterarguments, 1, k - 1) \o SubSeq(counterarguments, k + 1, n)
            recommended(args) == _make_recommendation(veto, args, stress_results)
        IN  /\ \A k \in 0..n : \A extra \in ArgumentPool :
                   /\ rank(recommended(with(k, extra))) >= rank(result.ret)
                   /\ extra.severity = "C" => recommended(with(k, extra)) = result.ret
            /\ \A k \in 1..n :
                   counterarguments[k].severity = "C" => recommended(without(k)) = result.ret

\* A list with one A, two B and one C finding gave REDUCE; one more A
\* finding makes it REJECT, one more B finding leaves it at REDUCE.
C28_Witness ==
    /\ pc = "done"
    /\ ~veto
    /\ Count(counterarguments, "A") = 1
    /\ Count(counterarguments, "B") = 2
    /\ Count(counterarguments, "C") = 1
    /\ result.ret = "REDUCE"
    /\ _make_recommendation(veto, Append(counterarguments,
           CounterArgument("A", "profitability", "Below-average ROIC")),
           stress_results) = "REJECT"

(***************************************************************************)
(* The Data Quality agent followed by the Devil's Advocate, as lines 98    *)
(* and 120 of orchestrator.py chain them: the DataQualityOutput that       *)
(* analyze returns is the dqa_output argument of the second analyze.  The  *)
(* valuation output is given: ValuationAgent.analyze is not implemented.   *)
(* The Devil's Advocate is modelled on whole hundredths, so the records    *)
(* are those whose metrics are whole hundredths.                           *)
(***************************************************************************)

\* The metrics of a DataQualityOutput are whole hundredths.
IsWhole(output) ==
    /\ output.roic.den = 1
    /\ output.roe.den = 1
    /\ output.cfo_ni_ratio.den = 1
    /\ output.margin_stability.sqrt_of.den = 1
    /\ Isqrt(output.margin_stability.sqrt_of.num) * Isqrt(output.margin_stability.sqrt_of.num)
           = output.margin_stability.sqrt_of.num

\* The same DataQualityOutput with its metrics counted in hundredths.
InHundredths(output) ==
    [output EXCEPT !.roic = @.num,
                   !.roe = @.num,
                   !.cfo_ni_ratio = @.num,
                   !.margin_stability = Isqrt(@.sqrt_of.num)]

\* Records with each field absent or present: cash flows of -10.00, -2.00
\* and 6.00, net incomes of -5.00, 0 and 10.00, gross margins of one year
\* and of three years with a standard deviation of 0.05 and of 0.20.
PipelineRecords ==
    {data \in
        {cf @@ ni @@ oi @@ ta @@ eq @@ pe @@ bm @@ gm @@ rh @@ rg :
            cf \in Field("cfo", {-1000, -200, 600}),
            ni \in Field("net_income", {-500, 0, 1000}),
            oi \in Field("operating_income", {1000}),
            ta \in {[total_assets |-> 5000]},
            eq \in Field("shareholders_equity", {2500}),
            pe \in Field("shareholders_equity_prev", {2500}),
            bm \in Field("beneish_m_score", {-100}),
            gm \in Field("gross_margin", {<<40>>, <<35, 40, 45>>, <<20, 40, 60>>}),
            rh \in Field("roic_history", {<<15>>}),
            rg \in Field("revenue_growth", {<<15>>})} :
        \A moat_score \in _compute_moat_score(data) :
            IsWhole(dqa_analyze("TEST", data, moat_score))}

\* The tests' rules, and the cash rule alone.
PipelineConfigs == {test_veto_rules, <<poor_cash_conversion>>}

PipelineVaOutputs == {[clean_va_output EXCEPT !.margin_of_safety = m] : m \in {5, 33}}

InitPipeline ==
    /\ pc = "call"
    /\ financial_data \in PipelineRecords
    /\ veto_rules \in PipelineConfigs
    /\ va_output \in PipelineVaOutputs
    /\ dqa_output = EmptyDict
    /\ condition = <<>>
    /\ value = [bound |-> FALSE]
    /\ veto = FALSE
    /\ counterarguments = <<>>
    /\ stress_results = EmptyDict
    /\ mos_intrinsic_value = 0
    /\ mos_current_price = 0
    /\ result = Unset
    /\ NoOrchestrator

\* What the two analyses leave alone.
pipeline_frame ==
    <<veto_rules, va_output, financial_data, condition, value, veto,
      counterarguments, stress_results, mos_intrinsic_value, mos_current_price,
      agents, executed, output_files>>

\* dqa_output = DataQualityAgent.analyze(ticker, financial_data)
PipelineDataQuality ==
    /\ pc = "call"
    /\ pc' = "dqa"
    /\ \E moat_score \in _compute_moat_score(financial_data) :
           dqa_output' = InHundredths(dqa_analyze("TEST", financial_data, moat_score))
    /\ UNCHANGED result
    /\ UNCHANGED pipeline_frame

\* DevilsAdvocateAgent.analyze(ticker, dqa_output, va_output)
PipelineDevilsAdvocate ==
    /\ pc = "dqa"
    /\ pc' = "done"
    /\ result' = analyze(veto_rules, dqa_output.ticker, dqa_output, va_output)
    /\ UNCHANGED dqa_output
    /\ UNCHANGED pipeline_frame

NextPipeline == PipelineDataQuality \/ PipelineDevilsAdvocate

SpecPipeline == InitPipeline /\ [][NextPipeline]_vars

\* C29: every loss-making company is vetoed under the standard rules.  For
\* a record whose net income is present and <= 0, DataQualityAgent.analyze
\* sets cfo_ni_ratio to 0, so that with a configuration holding the
\* severity-A rule "cfo_ni_ratio < 0.5" DevilsAdvocateAgent.analyze returns
\* veto = true and REJECT, whatever the cash flow and the other metrics are,
\* although the integrity checker has no cash_quality warning for the record.
C29_LossMakerVetoed ==
    (/\ pc = "done"
     /\ "net_income" \in DOMAIN financial_data
     /\ financial_data.net_income <= 0) =>
        /\ dqa_output.cfo_ni_ratio = 0
        /\ result.exc = "none"
        /\ result.ret.veto
        /\ result.ret.final_recommendation = "REJECT"
        /\ OfCategory(dqa_output.data_warnings, "cash_quality") = <<>>

\* A company with a loss of 5.00 and an operating cash flow of 6.00, every
\* other field present, was vetoed by the cash rule alone.
C29_Witness ==
    /\ pc = "done"
    /\ veto_rules = <<poor_cash_conversion>>
    /\ {"cfo", "net_income", "operating_income", "shareholders_equity",
        "beneish_m_score"} \subseteq DOMAIN financial_data
    /\ financial_data.cfo = 600
    /\ financial_data.net_income = -500
    /\ result.ret.veto
    /\ result.ret.veto_reason = "Operating cash flow significantly below net income"

\* C30: one weak cash conversion is counted twice.  For a record with CFO
\* and net income present, net income > 0 and 0.5 <= CFO/NI < 0.8, the two
\* analyses give exactly two severity-B findings that come from the ratio,
\* one of category cash_quality and one of category data_quality (the
\* re-surfaced cash_quality warning), so that one further severity-B finding
\* is enough to reach REDUCE.
C30_CountedTwice ==
    (/\ pc = "done"
     /\ {"cfo", "net_income"} \subseteq DOMAIN financial_data
     /\ financial_data.net_income > 0
     /\ 100 * financial_data.cfo >= 50 * financial_data.net_income
     /\ 100 * financial_data.cfo < 80 * financial_data.net_income) =>
        LET args     == result.ret.counterarguments
            cash     == OfCategory(args, "cash_quality")
            data     == OfCategory(args, "data_quality")
            flagged  == SelectSeq(dqa_output.data_warnings,
                                  LAMBDA w : w.severity \in {"A", "B"})
            of_ratio == {i \in DOMAIN flagged : flagged[i].category = "cash_quality"}
            further  == CounterArgument("B", "valuation", "Thin margin of safety")
            reached  == _make_recommendation(FALSE, Append(args, further), EmptyDict)
        IN  /\ Len(cash) = 1
            /\ cash[1].severity = "B"
            /\ Len(data) = Len(flagged)
            /\ Cardinality(of_ratio) = 1
            /\ \A i \in of_ratio : data[i].severity = "B"
            /\ reached \in {"REDUCE", "REJECT"}
            /\ Count(args, "A") < 2 => reached = "REDUCE"

\* A record with CFO/NI = 0.6 and nothing else to object to got the two B
\* findings and PROCEED; a third B finding gives REDUCE.
C30_Witness ==
    /\ pc = "done"
    /\ {"cfo", "net_income"} \subseteq DOMAIN financial_data
    /\ financial_data.cfo = 600
    /\ financial_data.net_income = 1000
    /\ Len(result.ret.counterarguments) = 2
    /\ Count(result.ret.counterarguments, "B") = 2
    /\ result.ret.final_recommendation = "PROCEED"
    /\ _make_recommendation(FALSE,
           Append(result.ret.counterarguments,
                  CounterArgument("B", "valuation", "Thin margin of safety")),
           EmptyDict) = "REDUCE"

====
